---- MODULE Spec2Model ----
(***************************************************************************)
(* qdata-expression: the expression engine (ExpressionEngine), its static   *)
(* safety checker (SafetyChecker / Sandbox), the tree-walking interpreter   *)
(* (SafeEvaluator) and the LRU cache (LRUCache / ExpressionCache).          *)
(*                                                                          *)
(* Python values are tagged records of one shape, AST nodes are records     *)
(* with a "kind" field named after the ast class, and ast.parse is the      *)
(* table Parse over a fixed set of source texts.                            *)
(***************************************************************************)
EXTENDS Integers, Sequences, FiniteSets, TLC

(***************************************************************************)
(* Bounds of the model.                                                     *)
(***************************************************************************)
\* number of LRUCache keys beyond max_size that the cache operations draw from
ExtraKeys == 1
\* the largest max_size an LRUCache is constructed with
MaxCacheSize == 2
\* cap on the hit / miss counters of the cache actions
MaxGets == 3
\* most CompiledExpression objects built in a run
MaxCompiles == 3

(***************************************************************************)
(* Python values.                                                           *)
(***************************************************************************)
IntV(n) == [k |-> "int", n |-> n, s |-> "", xs |-> <<>>]
StrV(s) == [k |-> "str", n |-> 0, s |-> s, xs |-> <<>>]
BoolV(b) == [k |-> "bool", n |-> IF b THEN 1 ELSE 0, s |-> "", xs |-> <<>>]
NoneV == [k |-> "None", n |-> 0, s |-> "", xs |-> <<>>]
FloatV(s) == [k |-> "float", n |-> 0, s |-> s, xs |-> <<>>]
ListV(xs) == [k |-> "list", n |-> 0, s |-> "", xs |-> xs]
TupleV(xs) == [k |-> "tuple", n |-> 0, s |-> "", xs |-> xs]
\* a dict is the sequence of its items (2-tuples) in insertion order
DictV(pairs) == [k |-> "dict", n |-> 0, s |-> "", xs |-> pairs]
\* a registered callable, by the name it is known under
FuncV(name) == [k |-> "func", n |-> 0, s |-> name, xs |-> <<>>]
\* a bound method obj.attr
MethodV(obj, attr) == [k |-> "method", n |-> 0, s |-> attr, xs |-> <<obj>>]

\* Python truthiness (bool(v))
Truthy(v) ==
    CASE v.k \in {"int", "bool"} -> v.n # 0
      [] v.k = "str" -> v.s # ""
      [] v.k = "None" -> FALSE
      [] v.k \in {"list", "tuple", "dict"} -> v.xs # <<>>
      [] OTHER -> TRUE

(***************************************************************************)
(* AST nodes (the classes of Python's ast module).                          *)
(***************************************************************************)
Constant(v) == [kind |-> "Constant", value |-> v]
Name(id) == [kind |-> "Name", id |-> id]
BinOp(l, op, r) == [kind |-> "BinOp", left |-> l, op |-> op, right |-> r]
BoolOp(op, values) == [kind |-> "BoolOp", op |-> op, values |-> values]
IfExp(t, b, o) == [kind |-> "IfExp", test |-> t, body |-> b, orelse |-> o]
Call(f, args) == [kind |-> "Call", func |-> f, args |-> args]
Attribute(v, attr) == [kind |-> "Attribute", value |-> v, attr |-> attr]
List(elts) == [kind |-> "List", elts |-> elts]
Tuple(elts) == [kind |-> "Tuple", elts |-> elts]
ListComp(elt, gens) == [kind |-> "ListComp", elt |-> elt, generators |-> gens]
DictComp(key, value, gens) ==
    [kind |-> "DictComp", key |-> key, value |-> value, generators |-> gens]
comprehension(target, iter, ifs) ==
    [kind |-> "comprehension", target |-> target, iter |-> iter, ifs |-> ifs]

K1 == Constant(IntV(1))
K2 == Constant(IntV(2))
K3 == Constant(IntV(3))

\* what ast.parse(expression, mode="eval") does on each source text
ParseOk(tree) == [ok |-> TRUE, error |-> "", body |-> tree]
ParseFail(error) == [ok |-> FALSE, error |-> error, body |-> K1]

(***************************************************************************)
(* Source texts and ast.parse.                                              *)
(***************************************************************************)
\* a source text on which the parser fails with an error that is no
\* SyntaxError: 100000 unary minus signs followed by 1 (MemoryError)
DeepSource == "-----(100000 times)-----1"

\* the limit the engine's sandbox is configured with:
\* SandboxConfig(max_recursion_depth=3)
max_recursion_depth == 3

\* a list display nested one level deeper than max_recursion_depth:
\* max_recursion_depth + 1 opening brackets, 1, and as many closing ones
NestedSource == "[[[...[1]...]]]"
RECURSIVE Nest(_)
Nest(n) == IF n = 0 THEN K1 ELSE List(<<Nest(n - 1)>>)

Sources ==
    { "2 + 3", "x", "2 +", "", DeepSource,
      "eval('1+1')", "__import__('os').system('x')", "getattr", "x.eval()",
      "x.eval",
      "user.name", "x.__class__", "user.__priv", "user._secret",
      "len(xs)", "boom(x)", "x.upper()", "x.missing",
      "[x for x in [1, 2, 3]]", "([x for x in [1, 2, 3]], x)",
      "[[y for y in x] for x in xs]", "[boom(x) for x in xs]",
      "[y for x in xs for y in x if y]", "{k: v for k, v in pairs}",
      "x and boom(x)", "None or len(xs)", "x if xs else boom(x)",
      "len", "[len for len in xs]", "x + 1",
      "x or boom(x)", "xs and boom(x)",
      "[z for x in xs for y in x if y for z in [len(x)]]",
      "0 or 5", "1 and 5", "e", "pi", "inf", "nan", NestedSource }

GenX123 == comprehension(Name("x"), List(<<K1, K2, K3>>), <<>>)

Parse(src) ==
    CASE src = "2 + 3" -> ParseOk(BinOp(K2, "Add", K3))
      [] src = "x" -> ParseOk(Name("x"))
      [] src = "2 +" -> ParseFail("SyntaxError")
      [] src = "" -> ParseFail("SyntaxError")
      [] src = DeepSource -> ParseFail("MemoryError")
      [] src = "eval('1+1')" ->
            ParseOk(Call(Name("eval"), <<Constant(StrV("1+1"))>>))
      [] src = "__import__('os').system('x')" ->
            ParseOk(Call(Attribute(Call(Name("__import__"),
                                        <<Constant(StrV("os"))>>), "system"),
                         <<Constant(StrV("x"))>>))
      [] src = "getattr" -> ParseOk(Name("getattr"))
      [] src = "x.eval()" -> ParseOk(Call(Attribute(Name("x"), "eval"), <<>>))
      [] src = "x.eval" -> ParseOk(Attribute(Name("x"), "eval"))
      [] src = "user.name" -> ParseOk(Attribute(Name("user"), "name"))
      [] src = "x.__class__" -> ParseOk(Attribute(Name("x"), "__class__"))
      [] src = "user.__priv" -> ParseOk(Attribute(Name("user"), "__priv"))
      [] src = "user._secret" -> ParseOk(Attribute(Name("user"), "_secret"))
      [] src = "len(xs)" -> ParseOk(Call(Name("len"), <<Name("xs")>>))
      [] src = "boom(x)" -> ParseOk(Call(Name("boom"), <<Name("x")>>))
      [] src = "x.upper()" -> ParseOk(Call(Attribute(Name("x"), "upper"), <<>>))
      [] src = "x.missing" -> ParseOk(Attribute(Name("x"), "missing"))
      [] src = "[x for x in [1, 2, 3]]" ->
            ParseOk(ListComp(Name("x"), <<GenX123>>))
      [] src = "([x for x in [1, 2, 3]], x)" ->
            ParseOk(Tuple(<<ListComp(Name("x"), <<GenX123>>), Name("x")>>))
      [] src = "[[y for y in x] for x in xs]" ->
            ParseOk(ListComp(
                ListComp(Name("y"),
                         <<comprehension(Name("y"), Name("x"), <<>>)>>),
                <<comprehension(Name("x"), Name("xs"), <<>>)>>))
      [] src = "[boom(x) for x in xs]" ->
            ParseOk(ListComp(Call(Name("boom"), <<Name("x")>>),
                             <<comprehension(Name("x"), Name("xs"), <<>>)>>))
      [] src = "[y for x in xs for y in x if y]" ->
            ParseOk(ListComp(Name("y"),
                <<comprehension(Name("x"), Name("xs"), <<>>),
                  comprehension(Name("y"), Name("x"), <<Name("y")>>)>>))
      [] src = "{k: v for k, v in pairs}" ->
            ParseOk(DictComp(Name("k"), Name("v"),
                <<comprehension(Tuple(<<Name("k"), Name("v")>>),
                                Name("pairs"), <<>>)>>))
      [] src = "x and boom(x)" ->
            ParseOk(BoolOp("And", <<Name("x"),
                                    Call(Name("boom"), <<Name("x")>>)>>))
      [] src = "None or len(xs)" ->
            ParseOk(BoolOp("Or", <<Constant(NoneV),
                                   Call(Name("len"), <<Name("xs")>>)>>))
      [] src = "x if xs else boom(x)" ->
            ParseOk(IfExp(Name("xs"), Name("x"),
                          Call(Name("boom"), <<Name("x")>>)))
      [] src = "len" -> ParseOk(Name("len"))
      [] src = "[len for len in xs]" ->
            ParseOk(ListComp(Name("len"),
                             <<comprehension(Name("len"), Name("xs"), <<>>)>>))
      [] src = "x + 1" -> ParseOk(BinOp(Name("x"), "Add", K1))
      [] src = "x or boom(x)" ->
            ParseOk(BoolOp("Or", <<Name("x"),
                                   Call(Name("boom"), <<Name("x")>>)>>))
      [] src = "xs and boom(x)" ->
            ParseOk(BoolOp("And", <<Name("xs"),
                                    Call(Name("boom"), <<Name("x")>>)>>))
      [] src = "[z for x in xs for y in x if y for z in [len(x)]]" ->
            ParseOk(ListComp(Name("z"),
                <<comprehension(Name("x"), Name("xs"), <<>>),
                  comprehension(Name("y"), Name("x"), <<Name("y")>>),
                  comprehension(Name("z"),
                                List(<<Call(Name("len"), <<Name("x")>>)>>),
                                <<>>)>>))
      [] src = "0 or 5" ->
            ParseOk(BoolOp("Or", <<Constant(IntV(0)), Constant(IntV(5))>>))
      [] src = "1 and 5" ->
            ParseOk(BoolOp("And", <<K1, Constant(IntV(5))>>))
      [] src \in {"e", "pi", "inf", "nan"} -> ParseOk(Name(src))
      [] src = NestedSource -> ParseOk(Nest(max_recursion_depth + 1))

(***************************************************************************)
(* SandboxConfig and SafetyChecker (sandbox.py).                            *)
(***************************************************************************)
\* SandboxConfig.forbidden_names (default)
forbidden_names ==
    { "eval", "exec", "compile", "open", "input", "__import__", "globals",
      "locals", "vars", "dir", "getattr", "setattr", "delattr", "hasattr",
      "type", "object", "classmethod", "staticmethod", "property", "file",
      "code", "memoryview", "breakpoint", "exit", "quit", "help",
      "copyright", "credits", "license" }

\* str.startswith / str.endswith on the attribute names of Sources
StartsWithDunder(attr) == attr \in {"__class__", "__priv"}
EndsWithDunder(attr) == attr \in {"__class__"}
StartsWithUnderscore(attr) == attr \in {"__class__", "__priv", "_secret"}

\* ast.iter_child_nodes order (the node's _fields), as generic_visit walks it
Children(node) ==
    CASE node.kind = "BinOp" -> <<node.left, node.right>>
      [] node.kind = "BoolOp" -> node.values
      [] node.kind = "IfExp" -> <<node.test, node.body, node.orelse>>
      [] node.kind = "Call" -> <<node.func>> \o node.args
      [] node.kind = "Attribute" -> <<node.value>>
      [] node.kind \in {"List", "Tuple"} -> node.elts
      [] node.kind = "ListComp" -> <<node.elt>> \o node.generators
      [] node.kind = "DictComp" -> <<node.key, node.value>> \o node.generators
      [] node.kind = "comprehension" ->
            <<node.target, node.iter>> \o node.ifs
      [] OTHER -> <<>>

\* SafetyChecker.visit_Name
visit_Name(node) ==
    IF node.id \in forbidden_names
    THEN <<"forbidden name: " \o node.id>> ELSE <<>>

\* visit_Attribute that flags underscore names in strict mode only
visit_AttributeStrictOnly(node, strict) ==
    IF StartsWithUnderscore(node.attr) /\ strict
    THEN <<"forbidden private attribute: " \o node.attr>>
    ELSE <<>>

\* SafetyChecker.visit_Attribute
visit_Attribute(node, strict) ==
    IF StartsWithDunder(node.attr) /\ EndsWithDunder(node.attr)
    THEN <<"forbidden magic attribute: " \o node.attr>>
    ELSE IF StartsWithDunder(node.attr)
    THEN <<"forbidden private attribute: " \o node.attr>>
    ELSE IF StartsWithUnderscore(node.attr) /\ strict
    THEN <<"forbidden private attribute: " \o node.attr>>
    ELSE <<>>

\* SafetyChecker.visit_Call
visit_Call(node) ==
    LET func_name == IF node.func.kind = "Name" THEN node.func.id
                     ELSE IF node.func.kind = "Attribute" THEN node.func.attr
                     ELSE ""
    IN IF func_name # "" /\ func_name \in forbidden_names
       THEN <<"forbidden call: " \o func_name>> ELSE <<>>

RECURSIVE Visit(_, _)
RECURSIVE VisitAll(_, _)
\* NodeVisitor.visit: the node's own visit_X, then generic_visit over the
\* children; the result is the sequence of errors appended, in order
Visit(node, strict) ==
    LET own == CASE node.kind = "Name" -> visit_Name(node)
                 [] node.kind = "Attribute" -> visit_Attribute(node, strict)
                 [] node.kind = "Call" -> visit_Call(node)
                 [] OTHER -> <<>>
    IN own \o VisitAll(Children(node), strict)

VisitAll(nodes, strict) ==
    IF nodes = <<>> THEN <<>>
    ELSE Visit(Head(nodes), strict) \o VisitAll(Tail(nodes), strict)

\* What one run of SafetyChecker.check appends to self.errors, and how the
\* run ends: "return" or the exception that escapes (only SyntaxError is
\* caught, sandbox.py:251)
CheckAppends(src, strict) ==
    LET p == Parse(src)
    IN IF p.ok THEN Visit(p.body, strict)
       ELSE IF p.error = "SyntaxError" THEN <<"syntax error: invalid syntax">>
       ELSE <<>>

CheckEscapes(src) ==
    LET p == Parse(src)
    IN IF ~p.ok /\ p.error # "SyntaxError" THEN p.error ELSE ""

(***************************************************************************)
(* SafeEvaluator (evaluator.py): the tree-walking interpreter.              *)
(*                                                                          *)
(* An evaluation threads a record through the walk:                         *)
(*   names    self.names, the dict the evaluator currently refers to        *)
(*   caller   the dict object the caller passed as names / context          *)
(*   aliased  self.names is that very object (not a copy of it)             *)
(*   acc      the result list / dict of the comprehension being evaluated   *)
(*   val      the value returned by the last _eval_node                     *)
(*   exc      the exception in flight ("" when none), detail its argument   *)
(*   expression, cause  the fields of that exception ("" when it has none)  *)
(*   nodes    the number of _eval_node calls made                           *)
(*   calls    the callables invoked, in order                               *)
(*   lookups  the attribute names given to getattr, in order                *)
(*   methods  those of them that were looked up as the target of a call     *)
(*   resolved the identifiers resolved (Name nodes, direct call targets)    *)
(*   scope_ok every comprehension that finished left names as it found it   *)
(***************************************************************************)
EmptyDict == [x \in {} |-> NoneV]

\* d[key] = value on a Python dict held as a function
SetItem(d, key, value) ==
    [x \in (DOMAIN d) \cup {key} |-> IF x = key THEN value ELSE d[x]]

Ret(st, v) == [st EXCEPT !.val = v]
Raise(st, e, detail) == [st EXCEPT !.exc = e, !.detail = detail]

\* self.names[id] = value: the write goes to the object self.names refers
\* to, which is the caller's dict for as long as the two are aliased
BindName(st, id, value) ==
    [st EXCEPT !.names = SetItem(st.names, id, value),
               !.caller = IF st.aliased THEN SetItem(st.caller, id, value)
                          ELSE st.caller]

\* self.names = saved_names at the end of a comprehension
\* (evaluator.py:422, 444): self.names now refers to the copy
RestoreNamesKeep(st, saved_names) == st

RestoreNames(st, saved_names) ==
    [st EXCEPT !.names = saved_names, !.aliased = FALSE]

\* str.upper and iteration over a str, on the strings the contexts hold
StrUpper(s) == IF s = "outer" THEN "OUTER" ELSE s
StrChars(s) == IF s = "outer"
               THEN <<StrV("o"), StrV("u"), StrV("t"), StrV("e"), StrV("r")>>
               ELSE <<>>
StrLen(s) == Len(StrChars(s))

\* the keys of a dict value, in order
RECURSIVE DictKeys(_)
DictKeys(pairs) ==
    IF pairs = <<>> THEN <<>> ELSE <<Head(pairs).xs[1]>> \o DictKeys(Tail(pairs))

\* dict.get(key, key): an absent key gives the key back
RECURSIVE DictGetOrKey(_, _)
DictGetOrKey(pairs, key) ==
    IF pairs = <<>> THEN key
    ELSE IF Head(pairs).xs[1] = key THEN Head(pairs).xs[2]
    ELSE DictGetOrKey(Tail(pairs), key)

\* dict.get(key): the value stored under key, None when absent
RECURSIVE DictGet(_, _)
DictGet(pairs, key) ==
    IF pairs = <<>> THEN NoneV
    ELSE IF Head(pairs).xs[1] = key THEN Head(pairs).xs[2]
    ELSE DictGet(Tail(pairs), key)

\* result[key] = value on the dict a dict comprehension builds
RECURSIVE DictPut(_, _, _)
DictPut(pairs, key, value) ==
    IF pairs = <<>> THEN <<TupleV(<<key, value>>)>>
    ELSE IF Head(pairs).xs[1] = key THEN <<TupleV(<<key, value>>)>> \o Tail(pairs)
    ELSE <<Head(pairs)>> \o DictPut(Tail(pairs), key, value)

\* iter(v): the items a for loop draws from v
Iterable(v) == v.k \in {"list", "tuple", "dict", "str"}
Items(v) ==
    CASE v.k \in {"list", "tuple"} -> v.xs
      [] v.k = "dict" -> DictKeys(v.xs)
      [] v.k = "str" -> StrChars(v.s)
      [] OTHER -> <<>>

\* getattr(obj, attr) on the objects and attribute names of the model
HasAttr(obj, attr) ==
    \/ attr = "__class__"
    \/ obj.k = "str" /\ attr = "upper"
GetAttr(obj, attr) ==
    IF attr = "__class__" THEN [k |-> "type", n |-> 0, s |-> obj.k, xs |-> <<>>]
    ELSE MethodV(obj, attr)

\* func(*args) for the callables of the model: the exception it raises
\* ("" when it returns) and the value it returns
ApplyRaises(func, args) ==
    CASE func.k = "func" /\ func.s = "boom" -> "ZeroDivisionError"
      [] func.k = "func" /\ func.s = "len" ->
            IF Len(args) = 1 /\ Iterable(args[1]) THEN "" ELSE "TypeError"
      [] func.k = "method" /\ func.s = "upper" ->
            IF Len(args) = 0 THEN "" ELSE "TypeError"
      [] OTHER -> "TypeError"
ApplyValue(func, args) ==
    CASE func.k = "func" /\ func.s = "len" -> IntV(Len(Items(args[1])))
      [] func.k = "method" /\ func.s = "upper" -> StrV(StrUpper(func.xs[1].s))
      [] OTHER -> NoneV

\* how a callable shows in the log of calls: a registered function by its
\* name, a bound method by its name after a dot
CallableName(func) == IF func.k = "method" THEN "." \o func.s ELSE func.s

\* SafeEvaluator.OPERATORS[ast.Add]
AddRaises(a, b) ==
    IF \/ a.k \in {"int", "bool"} /\ b.k \in {"int", "bool"}
       \/ a.k = b.k /\ a.k \in {"list", "tuple"}
    THEN "" ELSE "TypeError"
AddValue(a, b) ==
    IF a.k \in {"int", "bool"} THEN IntV(a.n + b.n)
    ELSE [a EXCEPT !.xs = a.xs \o b.xs]

\* a Name that looks in the names table before the functions table
ResolveNameNamesFirst(name, st, functions) ==
    IF name \in DOMAIN st.names
    THEN [st EXCEPT !.val = st.names[name],
                    !.resolved = Append(st.resolved, name)]
    ELSE IF name \in functions
    THEN [st EXCEPT !.val = FuncV(name),
                    !.resolved = Append(st.resolved, name)]
    ELSE Raise(st, "UndefinedVariableError", name)

\* the ast.Name branch of _eval_node (evaluator.py:250-265)
ResolveName(name, st, functions) ==
    IF name \in functions
    THEN [st EXCEPT !.val = FuncV(name),
                    !.resolved = Append(st.resolved, name)]
    ELSE IF name \in DOMAIN st.names
    THEN [st EXCEPT !.val = st.names[name],
                    !.resolved = Append(st.resolved, name)]
    ELSE IF name = "True" THEN Ret(st, BoolV(TRUE))
    ELSE IF name = "False" THEN Ret(st, BoolV(FALSE))
    ELSE IF name = "None" THEN Ret(st, NoneV)
    ELSE Raise(st, "UndefinedVariableError", name)

\* a call target that falls back on a callable value of the names table
ResolveCalleeOrVariable(func_name, st, functions) ==
    IF func_name \in functions
    THEN [st EXCEPT !.val = FuncV(func_name),
                    !.resolved = Append(st.resolved, func_name)]
    ELSE IF func_name \in DOMAIN st.names /\ st.names[func_name].k = "func"
    THEN [st EXCEPT !.val = st.names[func_name],
                    !.resolved = Append(st.resolved, func_name)]
    ELSE Raise(st, "UndefinedFunctionError", func_name)

\* the target of a call by a bare name (evaluator.py:319-323)
ResolveCallee(func_name, st, functions) ==
    IF func_name \notin functions
    THEN Raise(st, "UndefinedFunctionError", func_name)
    ELSE [st EXCEPT !.val = FuncV(func_name),
                    !.resolved = Append(st.resolved, func_name)]

RECURSIVE Eval(_, _, _)
RECURSIVE EvalList(_, _, _)
RECURSIVE EvalBoolOp(_, _, _, _)
RECURSIVE EvalIfs(_, _, _)
RECURSIVE BindTuple(_, _, _, _)
RECURSIVE EvalGenerators(_, _, _, _)
RECURSIVE LoopItems(_, _, _, _, _)

\* [self._eval_node(n) for n in nodes]: val is the list of the values
EvalList(nodes, st, functions) ==
    IF nodes = <<>> THEN Ret(st, ListV(<<>>))
    ELSE LET s1 == Eval(Head(nodes), st, functions)
         IN IF s1.exc # "" THEN s1
            ELSE LET s2 == EvalList(Tail(nodes), s1, functions)
                 IN IF s2.exc # "" THEN s2
                    ELSE Ret(s2, ListV(<<s1.val>> \o s2.val.xs))

\* a BoolOp that evaluates every operand before it decides
EvalBoolOpEager(node, i, st, functions) ==
    LET s1 == EvalList(node.values, st, functions)
        falsy == {j \in 1..Len(node.values) : ~Truthy(s1.val.xs[j])}
    IN IF s1.exc # "" THEN s1
       ELSE IF node.op = "And" THEN Ret(s1, BoolV(falsy = {}))
       ELSE Ret(s1, BoolV(falsy # 1..Len(node.values)))

\* a BoolOp with the value of Python's own and/or: the operand that
\* decides, or the last one
RECURSIVE EvalBoolOpValue(_, _, _, _)
EvalBoolOpValue(node, i, st, functions) ==
    LET s1 == Eval(node.values[i], st, functions)
    IN IF s1.exc # "" \/ i = Len(node.values) THEN s1
       ELSE IF node.op = "And" /\ ~Truthy(s1.val) THEN s1
       ELSE IF node.op = "Or" /\ Truthy(s1.val) THEN s1
       ELSE EvalBoolOpValue(node, i + 1, s1, functions)

\* the loop of a BoolOp over node.values from index i (evaluator.py:298-308)
EvalBoolOp(node, i, st, functions) ==
    IF i > Len(node.values) THEN Ret(st, BoolV(node.op = "And"))
    ELSE LET s1 == Eval(node.values[i], st, functions)
         IN IF s1.exc # "" THEN s1
            ELSE IF node.op = "And" /\ ~Truthy(s1.val) THEN Ret(s1, BoolV(FALSE))
            ELSE IF node.op = "Or" /\ Truthy(s1.val) THEN Ret(s1, BoolV(TRUE))
            ELSE EvalBoolOp(node, i + 1, s1, functions)

\* guards that always pass
EvalIfsPass(ifs, st, functions) == Ret(st, BoolV(TRUE))

\* all(self._eval_node(if_clause) for if_clause in comp.ifs)
EvalIfs(ifs, st, functions) ==
    IF ifs = <<>> THEN Ret(st, BoolV(TRUE))
    ELSE LET s1 == Eval(Head(ifs), st, functions)
         IN IF s1.exc # "" THEN s1
            ELSE IF ~Truthy(s1.val) THEN Ret(s1, BoolV(FALSE))
            ELSE EvalIfs(Tail(ifs), s1, functions)

\* for i, elt in enumerate(comp.target.elts): self.names[elt.id] = item[i]
BindTuple(elts, i, item, st) ==
    IF i > Len(elts) THEN st
    ELSE IF elts[i].kind # "Name" THEN BindTuple(elts, i + 1, item, st)
    ELSE IF item.k \notin {"list", "tuple", "str"}
    THEN Raise(st, "TypeError", "not subscriptable")
    ELSE IF i > Len(Items(item)) THEN Raise(st, "IndexError", "out of range")
    ELSE BindTuple(elts, i + 1, item, BindName(st, elts[i].id, Items(item)[i]))

\* SafeEvaluator._eval_generators; the callback is the one the
\* comprehension node comp_node hands over (append the element to result,
\* or add_item for a dict comprehension)
EvalGenerators(comp_node, index, st, functions) ==
    IF index > Len(comp_node.generators)
    THEN IF comp_node.kind = "DictComp"
         THEN LET s1 == Eval(comp_node.key, st, functions)
              IN IF s1.exc # "" THEN s1
                 ELSE LET s2 == Eval(comp_node.value, s1, functions)
                      IN IF s2.exc # "" THEN s2
                         ELSE [s2 EXCEPT !.acc = DictPut(s2.acc, s1.val, s2.val)]
         ELSE LET s1 == Eval(comp_node.elt, st, functions)
              IN IF s1.exc # "" THEN s1
                 ELSE [s1 EXCEPT !.acc = Append(s1.acc, s1.val)]
    ELSE LET comp == comp_node.generators[index]
             s1 == Eval(comp.iter, st, functions)
         IN IF s1.exc # "" THEN s1
            ELSE IF ~Iterable(s1.val) THEN Raise(s1, "TypeError", "not iterable")
            ELSE LoopItems(comp_node, index, Items(s1.val), s1, functions)

\* for item in iterable: ... (evaluator.py:461-473)
LoopItems(comp_node, index, items, st, functions) ==
    IF items = <<>> THEN st
    ELSE LET comp == comp_node.generators[index]
             item == Head(items)
             s1 == IF comp.target.kind = "Name"
                   THEN BindName(st, comp.target.id, item)
                   ELSE IF comp.target.kind = "Tuple"
                   THEN BindTuple(comp.target.elts, 1, item, st)
                   ELSE st
         IN IF s1.exc # "" THEN s1
            ELSE LET s2 == EvalIfs(comp.ifs, s1, functions)
                 IN IF s2.exc # "" THEN s2
                    ELSE LET s3 == IF Truthy(s2.val)
                                   THEN EvalGenerators(comp_node, index + 1,
                                                       s2, functions)
                                   ELSE s2
                         IN IF s3.exc # "" THEN s3
                            ELSE LoopItems(comp_node, index, Tail(items),
                                           s3, functions)

\* SafeEvaluator._eval_comprehension / _eval_dict_comprehension
EvalComprehension(comp_node, st, functions) ==
    LET saved_names == st.names
        s1 == EvalGenerators(comp_node, 1, [st EXCEPT !.acc = <<>>], functions)
    IN IF s1.exc # "" THEN s1
       ELSE LET s2 == RestoreNames(s1, saved_names)
                result == IF comp_node.kind = "DictComp" THEN DictV(s1.acc)
                          ELSE ListV(s1.acc)
            IN [s2 EXCEPT !.val = result, !.acc = st.acc,
                          !.scope_ok = s2.scope_ok /\ s2.names = st.names]

\* SafeEvaluator._eval_node
Eval(node, st0, functions) ==
    LET st == [st0 EXCEPT !.nodes = st0.nodes + 1]
    IN CASE node.kind = "Constant" -> Ret(st, node.value)
         [] node.kind = "Name" -> ResolveName(node.id, st, functions)
         [] node.kind = "BinOp" ->
              LET s1 == Eval(node.left, st, functions)
              IN IF s1.exc # "" THEN s1
                 ELSE LET s2 == Eval(node.right, s1, functions)
                      IN IF s2.exc # "" THEN s2
                         ELSE IF AddRaises(s1.val, s2.val) # ""
                         THEN Raise(s2, AddRaises(s1.val, s2.val), "+")
                         ELSE Ret(s2, AddValue(s1.val, s2.val))
         [] node.kind = "BoolOp" -> EvalBoolOp(node, 1, st, functions)
         [] node.kind = "IfExp" ->
              LET s1 == Eval(node.test, st, functions)
              IN IF s1.exc # "" THEN s1
                 ELSE IF Truthy(s1.val) THEN Eval(node.body, s1, functions)
                 ELSE Eval(node.orelse, s1, functions)
         [] node.kind = "Call" ->
              LET s1 == IF node.func.kind = "Name"
                        THEN ResolveCallee(node.func.id, st, functions)
                        ELSE IF node.func.kind = "Attribute"
                        THEN LET o == Eval(node.func.value, st, functions)
                             IN IF o.exc # "" THEN o
                                ELSE LET g == [o EXCEPT
                                               !.lookups = Append(o.lookups, node.func.attr),
                                               !.methods = Append(o.methods, node.func.attr)]
                                     IN IF HasAttr(o.val, node.func.attr)
                                        THEN Ret(g, GetAttr(o.val, node.func.attr))
                                        ELSE Raise(g, "AttributeError", node.func.attr)
                        ELSE Raise(st, "ExpressionEvalError", "call form")
              IN IF s1.exc # "" THEN s1
                 ELSE LET s2 == EvalList(node.args, s1, functions)
                      IN IF s2.exc # "" THEN s2
                         ELSE LET s3 == [s2 EXCEPT !.calls =
                                           Append(s2.calls, CallableName(s1.val))]
                              IN IF ApplyRaises(s1.val, s2.val.xs) # ""
                                 THEN Raise(s3, ApplyRaises(s1.val, s2.val.xs),
                                            s1.val.s)
                                 ELSE Ret(s3, ApplyValue(s1.val, s2.val.xs))
         [] node.kind = "Attribute" ->
              LET o == Eval(node.value, st, functions)
              IN IF o.exc # "" THEN o
                 ELSE IF o.val.k = "dict"
                 THEN Ret(o, DictGet(o.val.xs, StrV(node.attr)))
                 ELSE LET g == [o EXCEPT !.lookups = Append(o.lookups, node.attr)]
                      IN IF HasAttr(o.val, node.attr)
                         THEN Ret(g, GetAttr(o.val, node.attr))
                         ELSE Raise(g, "AttributeError", node.attr)
         [] node.kind = "List" -> EvalList(node.elts, st, functions)
         [] node.kind = "Tuple" ->
              LET s1 == EvalList(node.elts, st, functions)
              IN IF s1.exc # "" THEN s1 ELSE Ret(s1, TupleV(s1.val.xs))
         [] node.kind \in {"ListComp", "DictComp"} ->
              EvalComprehension(node, st, functions)
         [] OTHER -> Raise(st, "ExpressionEvalError", node.kind)

\* The outcome of one interpreter run, before any name is bound
StartState(names, aliased) ==
    [names |-> names, caller |-> names, aliased |-> aliased, acc |-> <<>>,
     val |-> NoneV, exc |-> "", detail |-> "", cause |-> "",
     expression |-> "", nodes |-> 0,
     calls |-> <<>>, lookups |-> <<>>, methods |-> <<>>, resolved |-> <<>>,
     scope_ok |-> TRUE]

\* an eval without the except clause: the exception goes up as it is
WrapNothing(st, expression) == st

\* SafeEvaluator.eval wraps every Exception of the try block
\* (evaluator.py:240-241): ExpressionEvalError(expression, cause=e)
Wrap(st, expression) ==
    IF st.exc = "" THEN st
    ELSE [st EXCEPT !.exc = "ExpressionEvalError", !.cause = st.exc,
                    !.expression = expression]

\* SafeEvaluator(names, functions).eval(expression). names_is_caller says
\* that the names argument is the dict object the caller holds.
\* __init__: self.names = names or {}  -- an empty dict is replaced
SafeEvaluatorEval(expression, names, functions) ==
    LET p == Parse(expression)
        st == StartState(names, names # EmptyDict)
    IN Wrap(IF p.ok THEN Eval(p.body, st, functions)
            ELSE Raise(st, p.error, "ast.parse"),
            expression)

\* ExpressionEngine._add_math_constants: a copy of the context with
\* e, pi, inf, nan added where absent
\* an ambient constant that replaces the caller's binding of the name
AddConstantOver(d, name) == SetItem(d, name, FloatV("math." \o name))

AddConstant(d, name) ==
    IF name \in DOMAIN d THEN d ELSE SetItem(d, name, FloatV("math." \o name))
add_math_constants(context) ==
    AddConstant(AddConstant(AddConstant(AddConstant(context, "e"), "pi"),
                            "inf"), "nan")

\* FunctionRegistry.get_all_callables(): the builtin functions the sources
\* use, and the functions registered with register_function
BuiltinFunctions == {"len", "upper", "abs"}
CustomFunctions == {"boom"}
get_all_callables(custom) == BuiltinFunctions \cup custom

\* Sandbox.validate_expression: if errors: raise SecurityViolationError
ValidateExpressionNeverRaises(errors) == FALSE

ValidateExpressionRaises(errors) == errors # <<>>

(***************************************************************************)
(* State.                                                                   *)
(***************************************************************************)
\* number of threads that call into one engine
NumThreads == 2
Threads == 1..NumThreads
\* the thread of the specifications in which calls are made one at a time
Caller == CHOOSE t \in Threads : \A u \in Threads : t <= u

\* the context dicts callers start with
Contexts ==
    { EmptyDict,
      [x |-> StrV("outer")],
      [x |-> StrV("outer"),
       xs |-> ListV(<<ListV(<<IntV(1)>>), ListV(<<IntV(0), IntV(2)>>)>>)],
      [user |-> DictV(<<TupleV(<<StrV("name"), StrV("Alice")>>)>>),
       pairs |-> ListV(<<TupleV(<<StrV("a"), IntV(1)>>),
                         TupleV(<<StrV("b"), IntV(2)>>)>>),
       xs |-> ListV(<<>>),
       getattr |-> IntV(7),
       len |-> IntV(5),
       boom |-> FuncV("lambda"),
       e |-> IntV(1)] }

VARIABLES
    enable_sandbox,         \* ExpressionEngine._sandbox is not None
    strict_private_access,  \* SandboxConfig.strict_private_access
    enable_cache,           \* ExpressionEngine._cache is not None
    custom,                 \* names registered with register_function
    context,                \* context[t]: the dict object thread t passes
    pc,                     \* pc[t]: where thread t is in its call
    call,                   \* call[t]: the operation and source of the call
    pending,                \* pending[t]: errors the visit has yet to append
    ret,                    \* ret[t]: the list object check returned to t
    last,                   \* last[t]: the outcome of t's call
    lastv,                  \* the outcome of the validate that preceded the
                            \* current evaluate of the same source, if any
    checker_errors,         \* Sandbox._checker.errors: a list object
    lists,                  \* lists[i]: the content of list object i
    max_size,               \* LRUCache.max_size
    cache,                  \* LRUCache._cache, oldest entry first
    hits,                   \* LRUCache._hits
    misses,                 \* LRUCache._misses
    got,                    \* what the latest LRUCache.get returned
    uses,                   \* keys in the order of their latest use (get
                            \* hit or put) since the last clear
    lastop,                 \* the latest LRUCache call: its name, its key
                            \* and what it found (see Called)
    lock,                   \* LRUCache._lock: the threads inside "with"
    cop,                    \* cop[t]: the LRUCache call thread t is in
    serial,                 \* the cache had the calls run one after the
                            \* other, in the order they took the lock
    gets,                   \* get calls completed since the last clear
    goc,                    \* goc[t]: thread t's get_or_compile call
    made,                   \* the CompiledExpression objects built
    reg,                    \* reg[r]: FunctionRegistry r, its _functions
                            \* and its _aliases
    regop,                  \* the latest FunctionRegistry call
    analysis,               \* what the latest ExpressionAnalyzer.analyze
                            \* returned
    default_engine,         \* the module global _default_engine
    engines,                \* ExpressionEngine objects constructed for it
    holder,                 \* _engine_lock: the threads inside "with"
    de,                     \* de[t]: thread t's get_default_engine call
    sop                     \* sop[t]: thread t's read of LRUCache.stats

engine_vars == <<enable_sandbox, strict_private_access, enable_cache, custom,
                 context, pc, call, pending, ret, last, lastv,
                 checker_errors, lists>>
lock_vars == <<lock, cop, serial, gets>>
goc_vars == <<goc, made>>
registry_vars == <<reg, regop>>
default_vars == <<default_engine, engines, holder, de>>
more_vars == <<registry_vars, analysis, default_vars, sop>>
lru_vars == <<max_size, cache, hits, misses, got, uses, lastop,
              lock_vars, goc_vars>>
cache_vars == <<lru_vars, more_vars>>
vars == <<engine_vars, cache_vars>>

ListIds == 0..NumThreads
NoRef == 0 - 1

NoResult ==
    [op |-> "none", src |-> "", ctx |-> EmptyDict, exc |-> "", cause |-> "",
     expression |-> "", detail |-> "", errors |-> <<>>, checked |-> <<>>, val |-> NoneV,
     nodes |-> 0, calls |-> <<>>, lookups |-> <<>>, methods |-> <<>>,
     resolved |-> <<>>, scope_ok |-> TRUE]

NoValidate == [src |-> "", raised |-> FALSE, errors |-> <<>>, done |-> FALSE]

\* the record of a call that has just begun
Begun(op, src, ctx) == [NoResult EXCEPT !.op = op, !.src = src, !.ctx = ctx]

\* the record of a call the interpreter has run in
Interpreted(r, run) ==
    [r EXCEPT !.exc = run.exc, !.cause = run.cause, !.detail = run.detail,
              !.expression = run.expression,
              !.val = IF run.exc = "" THEN run.val ELSE NoneV,
              !.nodes = run.nodes, !.calls = run.calls,
              !.lookups = run.lookups, !.methods = run.methods,
              !.resolved = run.resolved,
              !.scope_ok = run.scope_ok]

\* list objects nobody refers to any more are dropped
Collect(ls, refs) == [i \in ListIds |-> IF i \in refs THEN ls[i] ELSE <<>>]
Refs(ce, r) == {ce} \cup {r[t] : t \in Threads}

EngineInit ==
    /\ enable_sandbox \in BOOLEAN
    /\ strict_private_access \in BOOLEAN
    /\ enable_cache \in BOOLEAN
    /\ custom = {}
    /\ context \in [Threads -> Contexts]
    /\ pc = [t \in Threads |-> "idle"]
    /\ call = [t \in Threads |-> [op |-> "none", src |-> ""]]
    /\ pending = [t \in Threads |-> <<>>]
    /\ ret = [t \in Threads |-> NoRef]
    /\ last = [t \in Threads |-> NoResult]
    /\ lastv = NoValidate
    /\ checker_errors = 0
    /\ lists = [i \in ListIds |-> <<>>]

\* keys and values the cache operations are called with
Keys == 1..(MaxCacheSize + ExtraKeys)
CacheValues == {"v1", "v2"}
NoGet == [hit |-> FALSE, value |-> "None"]
NoKey == 0
\* a thread that is in no LRUCache call
NoCall ==
    [name |-> "none", key |-> NoKey, value |-> "None", at |-> "out",
     tmp |-> 0, ret |-> NoGet, want |-> NoGet]
\* a CompiledExpression object: its expression and its identity
NoObject == [expression |-> "", id |-> 0]
\* a thread that is in no get_or_compile call
NoGoc == [src |-> "", at |-> "out", obj |-> NoObject]
\* the record of an LRUCache call: found says that the key was in the cache
\* when get or put was called, and for clear that there were entries, hits
\* and misses to reset
Called(name, key, found) == [name |-> name, key |-> key, found |-> found]

\* the registries, the names functions are registered under and the
\* callables registered
Registries == {"registry", "other"}
FunctionNames == {"f", "g"}
Callables == {"f1", "f2"}
\* FunctionDefinition(name=name, func=func, ...)
FunctionDefinition(name, func) == [name |-> name, func |-> func]
\* the None that get returns
NoDefinition == [name |-> "", func |-> "None"]
\* FunctionRegistry.__init__
EmptyRegistry == [functions |-> EmptyDict, aliases |-> EmptyDict]
NoRegOp ==
    [op |-> "none", reg |-> "registry", name |-> "", func |-> "None",
     aliases |-> {}, result |-> FALSE]

\* the sets of known function names a parser is constructed with
KnownFunctions == SUBSET {"len", "boom", "x"}
\* ParseResult(expression=expression), with the known_functions of the
\* parser that made it
ParseResult(expression, known) ==
    [expression |-> expression, known |-> known, is_valid |-> TRUE,
     variables |-> {}, functions |-> {}]
NoAnalysis == ParseResult("", {})

\* _default_engine = None; an ExpressionEngine object is its number in the
\* order of construction
NoEngine == 0
\* the module-level functions that call get_default_engine
Conveniences == {"evaluate", "validate", "register_function"}
\* a thread that is in no get_default_engine call
NoDefaultCall == [at |-> "out", by |-> "none", engine |-> NoEngine]

\* a thread that is reading no stats: where it is in the property, its
\* local total, and the dict it builds (hit_rate as num / den)
NoStats ==
    [at |-> "out", tmp |-> 0, total |-> 0, size |-> 0, max_size |-> 0,
     hits |-> 0, misses |-> 0, num |-> 0, den |-> 1]

CacheInit ==
    /\ max_size \in 1..MaxCacheSize
    /\ cache = <<>>
    /\ hits = 0
    /\ misses = 0
    /\ got = NoGet
    /\ uses = <<>>
    /\ lastop = Called("none", NoKey, FALSE)
    /\ lock = {}
    /\ cop = [t \in Threads |-> NoCall]
    /\ serial = [cache |-> <<>>, hits |-> 0, misses |-> 0]
    /\ gets = 0
    /\ goc = [t \in Threads |-> NoGoc]
    /\ made = {}
    /\ reg = [r \in Registries |-> EmptyRegistry]
    /\ regop = NoRegOp
    /\ analysis = NoAnalysis
    /\ default_engine = NoEngine
    /\ engines = 0
    /\ holder = {}
    /\ de = [t \in Threads |-> NoDefaultCall]
    /\ sop = [t \in Threads |-> NoStats]

(***************************************************************************)
(* ExpressionEngine.evaluate and ExpressionEngine.validate, step by step.   *)
(***************************************************************************)
Free(t) == pc[t] = "idle"

\* evaluate(src) may follow directly on the validate(src) that just returned
\* or raised, so that the two outcomes can be compared
MayEvaluate(t, src) ==
    \/ Free(t)
    \/ pc[t] = "done" /\ call[t] = [op |-> "validate", src |-> src]

\* the call of thread t ends with the outcome r
Done(t, r) ==
    /\ pc' = [pc EXCEPT ![t] = "done"]
    /\ last' = [last EXCEPT ![t] = r]

\* evaluate(expression, context) is entered: context = context or {},
\* _add_math_constants copies it, then the sandbox check or the evaluator
EvaluateBegin(t, src) ==
    /\ MayEvaluate(t, src)
    /\ call' = [call EXCEPT ![t] = [op |-> "evaluate", src |-> src]]
    /\ last' = [last EXCEPT ![t] = Begun("evaluate", src, context[t])]
    /\ lastv' = IF lastv.src = src /\ lastv.done THEN lastv ELSE NoValidate
    /\ pc' = [pc EXCEPT ![t] = IF enable_sandbox THEN "check" ELSE "interp"]
    /\ UNCHANGED <<enable_sandbox, strict_private_access, enable_cache,
                   custom, context, pending, ret, checker_errors, lists>>
    /\ UNCHANGED cache_vars

\* validate(expression) up to the sandbox check (evaluator.py:648-658)
ValidateBegin(t, src) ==
    LET p == Parse(src)
        r == Begun("validate", src, context[t])
    IN /\ Free(t)
       /\ call' = [call EXCEPT ![t] = [op |-> "validate", src |-> src]]
       /\ IF ~p.ok /\ p.error = "SyntaxError"
          THEN /\ Done(t, [r EXCEPT !.errors = <<"syntax error: invalid syntax">>])
               /\ lastv' = [src |-> src, raised |-> FALSE, done |-> TRUE,
                            errors |-> <<"syntax error: invalid syntax">>]
          ELSE IF ~p.ok
          THEN /\ Done(t, [r EXCEPT !.exc = p.error])
               /\ lastv' = [src |-> src, raised |-> TRUE, done |-> TRUE,
                            errors |-> <<>>]
          ELSE IF enable_sandbox
          THEN /\ pc' = [pc EXCEPT ![t] = "check"]
               /\ last' = [last EXCEPT ![t] = r]
               /\ lastv' = NoValidate
          ELSE /\ Done(t, r)
               /\ lastv' = [src |-> src, raised |-> FALSE, done |-> TRUE,
                            errors |-> <<>>]
       /\ UNCHANGED <<enable_sandbox, strict_private_access, enable_cache,
                      custom, context, pending, ret, checker_errors, lists>>
       /\ UNCHANGED cache_vars

\* SafetyChecker.check: self.errors = [] and ast.parse (sandbox.py:247-249)
CheckReset(t) ==
    LET fresh == CHOOSE i \in ListIds :
                    /\ \A u \in Threads : ret[u] # i
                    /\ \A j \in ListIds :
                          (\A u \in Threads : ret[u] # j) => i <= j
        escapes == CheckEscapes(call[t].src)
    IN /\ pc[t] = "check"
       /\ checker_errors' = fresh
       /\ lists' = [Collect(lists, Refs(fresh, ret)) EXCEPT ![fresh] = <<>>]
       /\ IF escapes # ""
          THEN /\ Done(t, [last[t] EXCEPT !.exc = escapes])
               /\ pending' = pending
               /\ lastv' = IF call[t].op = "validate"
                           THEN [src |-> call[t].src, raised |-> TRUE,
                                 done |-> TRUE, errors |-> <<>>]
                           ELSE lastv
          ELSE /\ pc' = [pc EXCEPT ![t] = "visit"]
               /\ pending' = [pending EXCEPT ![t] =
                                CheckAppends(call[t].src, strict_private_access)]
               /\ UNCHANGED <<last, lastv>>
       /\ UNCHANGED <<enable_sandbox, strict_private_access, enable_cache,
                      custom, context, call, ret>>
       /\ UNCHANGED cache_vars

\* one self.errors.append(...) of the walk (or of the except clause)
CheckVisit(t) ==
    /\ pc[t] = "visit"
    /\ pending[t] # <<>>
    /\ lists' = [lists EXCEPT ![checker_errors] = Append(@, Head(pending[t]))]
    /\ pending' = [pending EXCEPT ![t] = Tail(@)]
    /\ UNCHANGED <<enable_sandbox, strict_private_access, enable_cache,
                   custom, context, pc, call, ret, last, lastv, checker_errors>>
    /\ UNCHANGED cache_vars

\* return self.errors (sandbox.py:253)
CheckReturn(t) ==
    /\ pc[t] = "visit"
    /\ pending[t] = <<>>
    /\ ret' = [ret EXCEPT ![t] = checker_errors]
    /\ pc' = [pc EXCEPT ![t] = "checked"]
    /\ UNCHANGED <<enable_sandbox, strict_private_access, enable_cache,
                   custom, context, call, pending, last, lastv,
                   checker_errors, lists>>
    /\ UNCHANGED cache_vars

\* Sandbox.validate_expression after check_expression returned
\* (sandbox.py:523-527), within evaluate
ValidateExpression(t) ==
    LET errors == lists[ret[t]]
        ret2 == [ret EXCEPT ![t] = NoRef]
    IN /\ pc[t] = "checked"
       /\ call[t].op = "evaluate"
       /\ IF ValidateExpressionRaises(errors)
          THEN Done(t, [last[t] EXCEPT !.exc = "SecurityViolationError",
                                       !.checked = errors])
          ELSE /\ pc' = [pc EXCEPT ![t] = "interp"]
               /\ last' = last
       /\ ret' = ret2
       /\ lists' = Collect(lists, Refs(checker_errors, ret2))
       /\ UNCHANGED <<enable_sandbox, strict_private_access, enable_cache,
                      custom, context, call, pending, lastv, checker_errors>>
       /\ UNCHANGED cache_vars

\* errors.extend(sandbox_errors); return errors (evaluator.py:660-662)
ValidateExtend(t) ==
    LET sandbox_errors == lists[ret[t]]
        ret2 == [ret EXCEPT ![t] = NoRef]
    IN /\ pc[t] = "checked"
       /\ call[t].op = "validate"
       /\ Done(t, [last[t] EXCEPT !.errors = sandbox_errors,
                                  !.checked = sandbox_errors])
       /\ lastv' = [src |-> call[t].src, raised |-> FALSE, done |-> TRUE,
                    errors |-> sandbox_errors]
       /\ ret' = ret2
       /\ lists' = Collect(lists, Refs(checker_errors, ret2))
       /\ UNCHANGED <<enable_sandbox, strict_private_access, enable_cache,
                      custom, context, call, pending, checker_errors>>
       /\ UNCHANGED cache_vars

\* evaluate from the construction of the evaluator on (evaluator.py:610-613)
Interpret(t) ==
    LET functions == get_all_callables(custom)
        run == SafeEvaluatorEval(call[t].src, add_math_constants(context[t]),
                                 functions)
    IN /\ pc[t] = "interp"
       /\ Done(t, Interpreted(last[t], run))
       /\ UNCHANGED <<enable_sandbox, strict_private_access, enable_cache,
                      custom, context, call, pending, ret, lastv,
                      checker_errors, lists>>
       /\ UNCHANGED cache_vars

\* SafeEvaluator(names=context, functions=...).eval(expression), called
\* directly with the caller's dict
SafeEval(t, src) ==
    LET run == SafeEvaluatorEval(src, context[t], get_all_callables(custom))
    IN /\ Free(t)
       /\ context[t] \in Contexts
       /\ call' = [call EXCEPT ![t] = [op |-> "safe_eval", src |-> src]]
       /\ Done(t, Interpreted(Begun("safe_eval", src, context[t]), run))
       /\ context' = [context EXCEPT ![t] = run.caller]
       /\ lastv' = NoValidate
       /\ UNCHANGED <<enable_sandbox, strict_private_access, enable_cache,
                      custom, pending, ret, checker_errors, lists>>
       /\ UNCHANGED cache_vars

\* CompiledExpression.compile(expression).evaluate(context)
CompiledEvaluate(t, src) ==
    LET p == Parse(src)
        r == Begun("compiled", src, context[t])
        run == SafeEvaluatorEval(src, context[t], {})
    IN /\ Free(t)
       /\ context[t] \in Contexts
       /\ call' = [call EXCEPT ![t] = [op |-> "compiled", src |-> src]]
       /\ IF ~p.ok
          THEN /\ Done(t, [r EXCEPT !.exc = IF p.error = "SyntaxError"
                                            THEN "ExpressionParseError"
                                            ELSE p.error])
               /\ context' = context
          ELSE /\ Done(t, Interpreted(r, run))
               /\ context' = [context EXCEPT ![t] = run.caller]
       /\ lastv' = NoValidate
       /\ UNCHANGED <<enable_sandbox, strict_private_access, enable_cache,
                      custom, pending, ret, checker_errors, lists>>
       /\ UNCHANGED cache_vars

\* the caller is done with the outcome of its call
Return(t) ==
    /\ pc[t] = "done"
    /\ pc' = [pc EXCEPT ![t] = "idle"]
    /\ call' = [call EXCEPT ![t] = [op |-> "none", src |-> ""]]
    /\ last' = [last EXCEPT ![t] = NoResult]
    /\ lastv' = NoValidate
    /\ UNCHANGED <<enable_sandbox, strict_private_access, enable_cache,
                   custom, context, pending, ret, checker_errors, lists>>
    /\ UNCHANGED cache_vars

\* ExpressionEngine.register_function / unregister_function
RegisterFunction(name) ==
    /\ \A t \in Threads : Free(t)
    /\ custom' = custom \cup {name}
    /\ UNCHANGED <<enable_sandbox, strict_private_access, enable_cache,
                   context, pc, call, pending, ret, last, lastv,
                   checker_errors, lists>>
    /\ UNCHANGED cache_vars

UnregisterFunction(name) ==
    /\ \A t \in Threads : Free(t)
    /\ custom' = custom \ {name}
    /\ UNCHANGED <<enable_sandbox, strict_private_access, enable_cache,
                   context, pc, call, pending, ret, last, lastv,
                   checker_errors, lists>>
    /\ UNCHANGED cache_vars

(***************************************************************************)
(* LRUCache.                                                                *)
(***************************************************************************)
RECURSIVE Without(_, _)
\* the entries of a sequence of entries other than the one of key
Without(entries, key) ==
    IF entries = <<>> THEN <<>>
    ELSE IF Head(entries).key = key THEN Without(Tail(entries), key)
    ELSE <<Head(entries)>> \o Without(Tail(entries), key)

CacheKeys(entries) == {entries[i].key : i \in 1..Len(entries)}
Entry(entries, key) ==
    entries[CHOOSE i \in 1..Len(entries) : entries[i].key = key]

\* OrderedDict.move_to_end(key)
move_to_end(entries, key) ==
    Without(entries, key) \o <<Entry(entries, key)>>

\* OrderedDict.popitem(last=True): the newest entry goes instead
popitem_last(entries) == SubSeq(entries, 1, Len(entries) - 1)

\* OrderedDict.popitem(last=False)
popitem_first(entries) == Tail(entries)

\* the ghost order of use: key becomes the most recently used
RECURSIVE Remove(_, _)
Remove(seq, x) ==
    IF seq = <<>> THEN <<>>
    ELSE IF Head(seq) = x THEN Remove(Tail(seq), x)
    ELSE <<Head(seq)>> \o Remove(Tail(seq), x)
Used(seq, key) == Append(Remove(seq, key), key)

\* a get that counts every call as a hit
GetCountsHitOnly(key) ==
    /\ hits < MaxGets
    /\ hits' = hits + 1
    /\ IF key \in CacheKeys(cache)
       THEN /\ cache' = move_to_end(cache, key)
            /\ got' = [hit |-> TRUE, value |-> Entry(cache, key).value]
            /\ uses' = Used(uses, key)
       ELSE /\ got' = NoGet
            /\ UNCHANGED <<cache, uses>>
    /\ lastop' = Called("get", key, key \in CacheKeys(cache))
    /\ UNCHANGED <<max_size, misses, lock_vars, goc_vars, more_vars>>
    /\ UNCHANGED engine_vars

\* LRUCache.get(key)
Get(key) ==
    /\ IF key \in CacheKeys(cache)
       THEN /\ hits < MaxGets
            /\ cache' = move_to_end(cache, key)
            /\ hits' = hits + 1
            /\ got' = [hit |-> TRUE, value |-> Entry(cache, key).value]
            /\ uses' = Used(uses, key)
            /\ UNCHANGED misses
       ELSE /\ misses < MaxGets
            /\ misses' = misses + 1
            /\ got' = NoGet
            /\ UNCHANGED <<cache, hits, uses>>
    /\ lastop' = Called("get", key, key \in CacheKeys(cache))
    /\ UNCHANGED <<max_size, lock_vars, goc_vars, more_vars>>
    /\ UNCHANGED engine_vars

\* LRUCache.put(key, value)
\* a put that stores the new value over the one the key already has
PutEntriesOverwrite(entries, key, value, size) ==
    Append(IF key \in CacheKeys(entries) THEN Without(entries, key)
           ELSE IF Len(entries) >= size THEN popitem_first(entries)
           ELSE entries,
           [key |-> key, value |-> value])

PutEntries(entries, key, value, size) ==
    IF key \in CacheKeys(entries) THEN move_to_end(entries, key)
    ELSE Append(IF Len(entries) >= size THEN popitem_first(entries)
                ELSE entries,
                [key |-> key, value |-> value])

Put(key, value) ==
    /\ cache' = PutEntries(cache, key, value, max_size)
    /\ uses' = Used(uses, key)
    /\ lastop' = Called("put", key, key \in CacheKeys(cache))
    /\ UNCHANGED <<max_size, hits, misses, got, lock_vars, goc_vars, more_vars>>
    /\ UNCHANGED engine_vars

\* LRUCache.clear()
WasUsed == cache # <<>> /\ hits > 0 /\ misses > 0

\* a clear that empties the OrderedDict and leaves the counters alone
ClearEntriesOnly ==
    /\ cache' = <<>>
    /\ uses' = <<>>
    /\ lastop' = Called("clear", NoKey, WasUsed)
    /\ UNCHANGED <<max_size, got, hits, misses, lock_vars, goc_vars, more_vars>>
    /\ UNCHANGED engine_vars

Clear ==
    /\ cache' = <<>>
    /\ hits' = 0
    /\ misses' = 0
    /\ uses' = <<>>
    /\ lastop' = Called("clear", NoKey, WasUsed)
    /\ UNCHANGED <<max_size, got, lock_vars, goc_vars, more_vars>>
    /\ UNCHANGED engine_vars

\* ExpressionEngine.clear_cache()
ClearCache ==
    /\ \A t \in Threads : Free(t)
    /\ IF enable_cache
       THEN /\ cache' = <<>>
            /\ hits' = 0
            /\ misses' = 0
            /\ uses' = <<>>
            /\ lastop' = Called("clear", NoKey, WasUsed)
       ELSE UNCHANGED <<cache, hits, misses, uses, lastop>>
    /\ UNCHANGED <<max_size, got, lock_vars, goc_vars, more_vars>>
    /\ UNCHANGED engine_vars

(***************************************************************************)
(* LRUCache called from several threads, statement by statement.  Every     *)
(* method body is inside "with self._lock".                                 *)
(***************************************************************************)
\* a lock that never makes a thread wait
AcquirableAlways(t) == TRUE

\* threading.Lock: "with self._lock" is entered when no thread holds it
Acquirable(t) == lock = {}

\* the whole of get / put / clear at once, on the record s of the cache
SerialApply(s, name, key, value, size) ==
    CASE name = "get" ->
            IF key \in CacheKeys(s.cache)
            THEN [s EXCEPT !.cache = move_to_end(s.cache, key),
                           !.hits = s.hits + 1]
            ELSE [s EXCEPT !.misses = s.misses + 1]
      [] name = "put" ->
            [s EXCEPT !.cache = PutEntries(s.cache, key, value, size)]
      [] OTHER -> [cache |-> <<>>, hits |-> 0, misses |-> 0]

\* and what it returns
SerialReturn(s, name, key) ==
    IF name = "get" /\ key \in CacheKeys(s.cache)
    THEN [hit |-> TRUE, value |-> Entry(s.cache, key).value]
    ELSE NoGet

\* self._cache[key] = value
SetEntry(entries, key, value) ==
    IF key \in CacheKeys(entries)
    THEN [i \in 1..Len(entries) |->
            IF entries[i].key = key THEN [key |-> key, value |-> value]
            ELSE entries[i]]
    ELSE Append(entries, [key |-> key, value |-> value])

At(t, name, at) == cop[t].name = name /\ cop[t].at = at
Goto(t, at) == cop' = [cop EXCEPT ![t].at = at]

\* get(key), put(key, value) or clear() is called and takes the lock
CacheCall(t, name, key, value) ==
    /\ cop[t].at = "out"
    /\ sop[t].at \in {"out", "done"}
    /\ name = "get" => serial.hits + serial.misses < MaxGets
    /\ Acquirable(t)
    /\ lock' = lock \cup {t}
    /\ cop' = [cop EXCEPT ![t] =
                 [NoCall EXCEPT !.name = name, !.key = key, !.value = value,
                                !.at = "in",
                                !.want = SerialReturn(serial, name, key)]]
    /\ serial' = SerialApply(serial, name, key, value, max_size)
    /\ gets' = IF name = "clear" THEN 0 ELSE gets
    /\ UNCHANGED <<max_size, cache, hits, misses, got, uses, lastop, goc_vars, more_vars>>
    /\ UNCHANGED engine_vars

\* get: if key in self._cache: self._cache.move_to_end(key)
GetTest(t) ==
    /\ At(t, "get", "in")
    /\ IF cop[t].key \in CacheKeys(cache)
       THEN cache' = move_to_end(cache, cop[t].key) /\ Goto(t, "hit")
       ELSE cache' = cache /\ Goto(t, "miss")
    /\ UNCHANGED <<max_size, hits, misses, got, uses, lastop, lock, serial,
                   gets, goc_vars, more_vars>>
    /\ UNCHANGED engine_vars

\* self._hits += 1 / self._misses += 1: the counter is read ...
CounterLoad(t) ==
    /\ cop[t].name = "get"
    /\ cop[t].at \in {"hit", "miss"}
    /\ cop' = [cop EXCEPT ![t].tmp = IF cop[t].at = "hit" THEN hits ELSE misses,
                          ![t].at = IF cop[t].at = "hit" THEN "hit_store"
                                    ELSE "miss_store"]
    /\ UNCHANGED <<max_size, cache, hits, misses, got, uses, lastop, lock,
                   serial, gets, goc_vars, more_vars>>
    /\ UNCHANGED engine_vars

\* ... and written back; return True, self._cache[key] / return False, None
CounterStore(t) ==
    /\ cop[t].name = "get"
    /\ cop[t].at \in {"hit_store", "miss_store"}
    /\ IF cop[t].at = "hit_store"
       THEN /\ hits' = cop[t].tmp + 1
            /\ misses' = misses
            /\ cop' = [cop EXCEPT
                         ![t].at = "exit",
                         ![t].ret =
                            [hit |-> TRUE,
                             value |-> IF cop[t].key \in CacheKeys(cache)
                                       THEN Entry(cache, cop[t].key).value
                                       ELSE "KeyError"]]
       ELSE /\ misses' = cop[t].tmp + 1
            /\ hits' = hits
            /\ cop' = [cop EXCEPT ![t].at = "exit", ![t].ret = NoGet]
    /\ UNCHANGED <<max_size, cache, got, uses, lastop, lock, serial, gets,
                   goc_vars, more_vars>>
    /\ UNCHANGED engine_vars

\* put: if key in self._cache: self._cache.move_to_end(key)
PutTest(t) ==
    /\ At(t, "put", "in")
    /\ IF cop[t].key \in CacheKeys(cache)
       THEN cache' = move_to_end(cache, cop[t].key) /\ Goto(t, "exit")
       ELSE cache' = cache /\ Goto(t, "room")
    /\ UNCHANGED <<max_size, hits, misses, got, uses, lastop, lock, serial,
                   gets, goc_vars, more_vars>>
    /\ UNCHANGED engine_vars

\* if len(self._cache) >= self.max_size: self._cache.popitem(last=False)
PutEvict(t) ==
    /\ At(t, "put", "room")
    /\ cache' = IF Len(cache) >= max_size /\ cache # <<>>
                THEN popitem_first(cache) ELSE cache
    /\ Goto(t, "insert")
    /\ UNCHANGED <<max_size, hits, misses, got, uses, lastop, lock, serial,
                   gets, goc_vars, more_vars>>
    /\ UNCHANGED engine_vars

\* self._cache[key] = value
PutInsert(t) ==
    /\ At(t, "put", "insert")
    /\ cache' = SetEntry(cache, cop[t].key, cop[t].value)
    /\ Goto(t, "exit")
    /\ UNCHANGED <<max_size, hits, misses, got, uses, lastop, lock, serial,
                   gets, goc_vars, more_vars>>
    /\ UNCHANGED engine_vars

\* clear: self._cache.clear()
ClearEntries(t) ==
    /\ At(t, "clear", "in")
    /\ cache' = <<>>
    /\ Goto(t, "hits")
    /\ UNCHANGED <<max_size, hits, misses, got, uses, lastop, lock, serial,
                   gets, goc_vars, more_vars>>
    /\ UNCHANGED engine_vars

\* self._hits = 0
ClearHits(t) ==
    /\ At(t, "clear", "hits")
    /\ hits' = 0
    /\ Goto(t, "misses")
    /\ UNCHANGED <<max_size, cache, misses, got, uses, lastop, lock, serial,
                   gets, goc_vars, more_vars>>
    /\ UNCHANGED engine_vars

\* self._misses = 0
ClearMisses(t) ==
    /\ At(t, "clear", "misses")
    /\ misses' = 0
    /\ Goto(t, "exit")
    /\ UNCHANGED <<max_size, cache, hits, got, uses, lastop, lock, serial,
                   gets, goc_vars, more_vars>>
    /\ UNCHANGED engine_vars

\* the with block is left and the call returns
Release(t) ==
    /\ cop[t].at = "exit"
    /\ lock' = lock \ {t}
    /\ gets' = IF cop[t].name = "get" THEN gets + 1 ELSE gets
    /\ cop' = [cop EXCEPT ![t] = NoCall]
    /\ UNCHANGED <<max_size, cache, hits, misses, got, uses, lastop, serial,
                   goc_vars, more_vars>>
    /\ UNCHANGED engine_vars

(***************************************************************************)
(* LRUCache.stats, statement by statement: the property takes no lock.      *)
(***************************************************************************)
StatsStep(t, from, to) ==
    /\ sop[t].at \in from
    /\ cop[t].at = "out"
    /\ sop'[t].at = to
    /\ UNCHANGED <<engine_vars, lru_vars, registry_vars, analysis,
                   default_vars>>

\* total = self._hits + self._misses: self._hits is read ...
StatsLoadHits(t) ==
    /\ sop' = [sop EXCEPT ![t] = [NoStats EXCEPT !.at = "total", !.tmp = hits]]
    /\ StatsStep(t, {"out", "done"}, "total")

\* ... then self._misses, and the sum is stored
StatsTotal(t) ==
    /\ sop' = [sop EXCEPT ![t].at = "size", ![t].total = sop[t].tmp + misses]
    /\ StatsStep(t, {"total"}, "size")

\* "size": len(self._cache), "max_size": self.max_size
StatsSize(t) ==
    /\ sop' = [sop EXCEPT ![t].at = "hits", ![t].size = Len(cache),
                          ![t].max_size = max_size]
    /\ StatsStep(t, {"size"}, "hits")

\* "hits": self._hits
StatsHits(t) ==
    /\ sop' = [sop EXCEPT ![t].at = "misses", ![t].hits = hits]
    /\ StatsStep(t, {"hits"}, "misses")

\* "misses": self._misses
StatsMisses(t) ==
    /\ sop' = [sop EXCEPT ![t].at = "hit_rate", ![t].misses = misses]
    /\ StatsStep(t, {"misses"}, "hit_rate")

\* "hit_rate": self._hits / total if total > 0 else 0
StatsRate(t) ==
    /\ sop' = [sop EXCEPT ![t].at = "done",
                          ![t].num = IF sop[t].total > 0 THEN hits ELSE 0,
                          ![t].den = IF sop[t].total > 0 THEN sop[t].total
                                     ELSE 1]
    /\ StatsStep(t, {"hit_rate"}, "done")

(***************************************************************************)
(* ExpressionCache.get_or_compile, called from several threads.  The get    *)
(* and the put of the LRUCache are one step each (they hold the lock); the  *)
(* compile between them is outside any lock.                                *)
(***************************************************************************)
\* the sources get_or_compile is called with
ExprSources == {"2 + 3", "x", "2 +"}

\* ExpressionCache._make_key: hashlib.md5(expression.encode()).hexdigest()
MakeKey(expression) ==
    CASE expression = "2 + 3" -> "0daac68246607dfb31bdea9ad3f7eaa8"
      [] expression = "x" -> "9dd4e461268c8034f5c8564e155c67a6"
      [] expression = "2 +" -> "d1ba1d7989241efe5d737c1e15d45ef3"

\* cache_key = self._make_key(expression);
\* hit, compiled = self._cache.get(cache_key); if hit: return compiled
GocGet(t, expression) ==
    LET cache_key == MakeKey(expression)
        hit == cache_key \in CacheKeys(cache)
    IN /\ goc[t].at \in {"out", "done", "raised"}
       /\ IF hit
          THEN /\ hits < MaxGets
               /\ cache' = move_to_end(cache, cache_key)
               /\ hits' = hits + 1
               /\ got' = [hit |-> TRUE, value |-> Entry(cache, cache_key).value]
               /\ uses' = Used(uses, cache_key)
               /\ goc' = [goc EXCEPT ![t] =
                            [src |-> expression, at |-> "done",
                             obj |-> Entry(cache, cache_key).value]]
               /\ UNCHANGED misses
          ELSE /\ misses < MaxGets
               /\ misses' = misses + 1
               /\ got' = [hit |-> FALSE, value |-> NoObject]
               /\ goc' = [goc EXCEPT ![t] =
                            [src |-> expression, at |-> "missed",
                             obj |-> NoObject]]
               /\ UNCHANGED <<cache, hits, uses>>
       /\ lastop' = Called("get", cache_key, hit)
       /\ UNCHANGED <<max_size, lock_vars, made, more_vars>>
       /\ UNCHANGED engine_vars

\* compiled = CompiledExpression.compile(expression): a new object, or
\* ExpressionParseError out of get_or_compile
GocCompile(t) ==
    LET p == Parse(goc[t].src)
        compiled == [expression |-> goc[t].src, id |-> Cardinality(made) + 1]
    IN /\ goc[t].at = "missed"
       /\ IF p.ok
          THEN /\ Cardinality(made) < MaxCompiles
               /\ made' = made \cup {compiled}
               /\ goc' = [goc EXCEPT ![t].at = "compiled", ![t].obj = compiled]
          ELSE /\ made' = made
               /\ goc' = [goc EXCEPT ![t].at = "raised"]
       /\ UNCHANGED <<max_size, cache, hits, misses, got, uses, lastop,
                      lock_vars, more_vars>>
       /\ UNCHANGED engine_vars

\* self._cache.put(cache_key, compiled); return compiled
GocPut(t) ==
    LET cache_key == MakeKey(goc[t].src)
    IN /\ goc[t].at = "compiled"
       /\ cache' = PutEntries(cache, cache_key, goc[t].obj, max_size)
       /\ uses' = Used(uses, cache_key)
       /\ lastop' = Called("put", cache_key, cache_key \in CacheKeys(cache))
       /\ goc' = [goc EXCEPT ![t].at = "done"]
       /\ UNCHANGED <<max_size, hits, misses, got, lock_vars, made, more_vars>>
       /\ UNCHANGED engine_vars

(***************************************************************************)
(* FunctionRegistry (functions/base.py).                                    *)
(***************************************************************************)
\* del d[key] on a Python dict held as a function
DelItem(d, key) == [x \in (DOMAIN d) \ {key} |-> d[x]]

\* d.update(other)
Update(d, other) ==
    [x \in (DOMAIN d) \cup (DOMAIN other) |->
        IF x \in DOMAIN other THEN other[x] ELSE d[x]]

\* FunctionRegistry.register(name, func, aliases=aliases)
register(r, name, func, aliases) ==
    [functions |-> SetItem(r.functions, name, FunctionDefinition(name, func)),
     aliases |-> [a \in (DOMAIN r.aliases) \cup aliases |->
                    IF a \in aliases THEN name ELSE r.aliases[a]]]

\* FunctionRegistry.register_definition(definition)
register_definition(r, definition) ==
    [r EXCEPT !.functions = SetItem(@, definition.name, definition)]

\* an unregister that deletes the function and leaves its aliases
unregister_keep_aliases(r, name) ==
    IF name \in DOMAIN r.functions
    THEN [r EXCEPT !.functions = DelItem(@, name)]
    ELSE r

\* FunctionRegistry.unregister(name): the registry it leaves
unregister(r, name) ==
    IF name \in DOMAIN r.functions
    THEN [functions |-> DelItem(r.functions, name),
          aliases |-> [a \in {b \in DOMAIN r.aliases : r.aliases[b] # name}
                         |-> r.aliases[a]]]
    ELSE r

\* FunctionRegistry.get(name): the alias is looked up first
get(r, name) ==
    LET n == IF name \in DOMAIN r.aliases THEN r.aliases[name] ELSE name
    IN IF n \in DOMAIN r.functions THEN r.functions[n] ELSE NoDefinition

\* FunctionRegistry.get_callable(name)
get_callable(r, name) ==
    IF get(r, name) # NoDefinition THEN get(r, name).func ELSE "None"

\* FunctionRegistry.has(name)
has(r, name) ==
    LET n == IF name \in DOMAIN r.aliases THEN r.aliases[name] ELSE name
    IN n \in DOMAIN r.functions

\* FunctionRegistry.get_all_callables(): the functions, then the aliases
\* whose target is registered, written over them
GetAllCallables(r) ==
    LET live == {a \in DOMAIN r.aliases : r.aliases[a] \in DOMAIN r.functions}
    IN [n \in (DOMAIN r.functions) \cup live |->
          IF n \in live THEN r.functions[r.aliases[n]].func
          ELSE r.functions[n].func]

\* FunctionRegistry.merge(other)
merge(r, other) ==
    [functions |-> Update(r.functions, other.functions),
     aliases |-> Update(r.aliases, other.aliases)]

RegCalled(op, r, name, func, aliases, result) ==
    [op |-> op, reg |-> r, name |-> name, func |-> func,
     aliases |-> aliases, result |-> result]

Register(r, name, func, aliases) ==
    /\ reg' = [reg EXCEPT ![r] = register(@, name, func, aliases)]
    /\ regop' = RegCalled("register", r, name, func, aliases, TRUE)
    /\ UNCHANGED <<engine_vars, lru_vars, analysis, default_vars, sop>>

RegisterDefinition(r, name, func) ==
    /\ reg' = [reg EXCEPT ![r] =
                 register_definition(@, FunctionDefinition(name, func))]
    /\ regop' = RegCalled("register_definition", r, name, func, {}, TRUE)
    /\ UNCHANGED <<engine_vars, lru_vars, analysis, default_vars, sop>>

Unregister(r, name) ==
    /\ reg' = [reg EXCEPT ![r] = unregister(@, name)]
    /\ regop' = RegCalled("unregister", r, name, "None", {},
                          name \in DOMAIN reg[r].functions)
    /\ UNCHANGED <<engine_vars, lru_vars, analysis, default_vars, sop>>

Merge(r, other) ==
    /\ r # other
    /\ reg' = [reg EXCEPT ![r] = merge(@, reg[other])]
    /\ regop' = RegCalled("merge", r, "", "None", {}, TRUE)
    /\ UNCHANGED <<engine_vars, lru_vars, analysis, default_vars, sop>>

(***************************************************************************)
(* ExpressionAnalyzer and ExpressionParser.parse (parser.py).               *)
(***************************************************************************)
\* ExpressionAnalyzer.visit_Name, before its generic_visit; a is the
\* analyzer's variables and functions sets
analyzer_visit_Name(node, a, known) ==
    IF node.id \in {"True", "False", "None"} THEN a
    ELSE IF node.id \in known
    THEN [a EXCEPT !.functions = @ \cup {node.id}]
    ELSE [a EXCEPT !.variables = @ \cup {node.id}]

\* ExpressionAnalyzer.visit_Call, before its generic_visit
analyzer_visit_Call(node, a) ==
    IF node.func.kind = "Name"
    THEN [a EXCEPT !.functions = @ \cup {node.func.id},
                   !.variables = @ \ {node.func.id}]
    ELSE IF node.func.kind = "Attribute"
    THEN [a EXCEPT !.functions = @ \cup {node.func.attr}]
    ELSE a

\* NodeVisitor.visit on the analyzer: the visit_ method of the node's
\* class, then generic_visit over the children, the func of a Call included
RECURSIVE AnalyzerVisit(_, _, _)
RECURSIVE AnalyzerVisitAll(_, _, _)
AnalyzerVisit(node, a, known) ==
    AnalyzerVisitAll(Children(node),
                     CASE node.kind = "Name" ->
                            analyzer_visit_Name(node, a, known)
                       [] node.kind = "Call" -> analyzer_visit_Call(node, a)
                       [] OTHER -> a,
                     known)
AnalyzerVisitAll(nodes, a, known) ==
    IF nodes = <<>> THEN a
    ELSE AnalyzerVisitAll(Tail(nodes), AnalyzerVisit(Head(nodes), a, known),
                          known)

\* ExpressionAnalyzer.analyze(tree): the two sets it returns as sorted lists
analyze(tree, known) ==
    AnalyzerVisit(tree, [variables |-> {}, functions |-> {}], known)

\* ExpressionParser(known).parse(expression)
ParserParse(expression, known) ==
    /\ analysis' =
          IF expression = "" \/ ~Parse(expression).ok
          THEN [ParseResult(expression, known) EXCEPT !.is_valid = FALSE]
          ELSE [ParseResult(expression, known) EXCEPT
                   !.variables = analyze(Parse(expression).body, known).variables,
                   !.functions = analyze(Parse(expression).body, known).functions]
    /\ UNCHANGED <<engine_vars, lru_vars, registry_vars, default_vars, sop>>

(***************************************************************************)
(* get_default_engine (evaluator.py), statement by statement.               *)
(***************************************************************************)
\* a lock that never makes a thread wait
EngineLockFreeAlways(t) == TRUE

\* threading.Lock: "with _engine_lock" is entered when no thread holds it
EngineLockFree(t) == holder = {}

\* engine = get_default_engine() in evaluate, validate or register_function
DefaultCall(t, by) ==
    /\ de[t].at \in {"out", "done"}
    /\ de' = [de EXCEPT ![t] = [at |-> "with", by |-> by, engine |-> NoEngine]]
    /\ UNCHANGED <<default_engine, engines, holder>>
    /\ UNCHANGED <<engine_vars, lru_vars, registry_vars, analysis, sop>>

\* with _engine_lock:
DefaultAcquire(t) ==
    /\ de[t].at = "with"
    /\ EngineLockFree(t)
    /\ holder' = holder \cup {t}
    /\ de' = [de EXCEPT ![t].at = "test"]
    /\ UNCHANGED <<default_engine, engines>>
    /\ UNCHANGED <<engine_vars, lru_vars, registry_vars, analysis, sop>>

\* if _default_engine is None:
DefaultTest(t) ==
    /\ de[t].at = "test"
    /\ de' = [de EXCEPT ![t].at = IF default_engine = NoEngine
                                   THEN "construct" ELSE "return"]
    /\ UNCHANGED <<default_engine, engines, holder>>
    /\ UNCHANGED <<engine_vars, lru_vars, registry_vars, analysis, sop>>

\* _default_engine = ExpressionEngine()
DefaultConstruct(t) ==
    /\ de[t].at = "construct"
    /\ engines' = engines + 1
    /\ default_engine' = engines + 1
    /\ de' = [de EXCEPT ![t].at = "return"]
    /\ UNCHANGED holder
    /\ UNCHANGED <<engine_vars, lru_vars, registry_vars, analysis, sop>>

\* return _default_engine, leaving the with block
DefaultReturn(t) ==
    /\ de[t].at = "return"
    /\ de' = [de EXCEPT ![t].at = "done", ![t].engine = default_engine]
    /\ holder' = holder \ {t}
    /\ UNCHANGED <<default_engine, engines>>
    /\ UNCHANGED <<engine_vars, lru_vars, registry_vars, analysis, sop>>

(***************************************************************************)
(* Specifications.                                                          *)
(***************************************************************************)
\* One caller, one call at a time, on one engine
Init ==
    /\ EngineInit
    /\ \A t \in Threads \ {Caller} : context[t] = EmptyDict
    /\ CacheInit
    /\ max_size = MaxCacheSize

Next ==
    \/ \E src \in Sources : EvaluateBegin(Caller, src)
    \/ \E src \in Sources : ValidateBegin(Caller, src)
    \/ CheckReset(Caller)
    \/ CheckVisit(Caller)
    \/ CheckReturn(Caller)
    \/ ValidateExpression(Caller)
    \/ ValidateExtend(Caller)
    \/ Interpret(Caller)
    \/ \E src \in Sources : SafeEval(Caller, src)
    \/ \E src \in Sources : CompiledEvaluate(Caller, src)
    \/ Return(Caller)
    \/ \E name \in CustomFunctions : RegisterFunction(name)
    \/ \E name \in CustomFunctions : UnregisterFunction(name)
    \/ ClearCache

Spec == Init /\ [][Next]_vars

\* Several threads call evaluate and validate on one engine with a sandbox
ConcSources == {"2 + 3", "eval('1+1')", "x.__class__", "2 +"}

InitConc ==
    /\ EngineInit
    /\ enable_sandbox
    /\ ~strict_private_access
    /\ ~enable_cache
    /\ \A t \in Threads : context[t] = EmptyDict
    /\ CacheInit
    /\ max_size = MaxCacheSize

NextConc ==
    \E t \in Threads :
        \/ \E src \in ConcSources : EvaluateBegin(t, src)
        \/ \E src \in ConcSources : ValidateBegin(t, src)
        \/ CheckReset(t)
        \/ CheckVisit(t)
        \/ CheckReturn(t)
        \/ ValidateExpression(t)
        \/ ValidateExtend(t)
        \/ Interpret(t)
        \/ Return(t)

SpecConc == InitConc /\ [][NextConc]_vars

\* One LRUCache, called by one thread
InitCache ==
    /\ EngineInit
    /\ enable_sandbox /\ ~strict_private_access /\ enable_cache
    /\ \A t \in Threads : context[t] = EmptyDict
    /\ CacheInit

NextCache ==
    \/ \E key \in Keys : Get(key)
    \/ \E key \in Keys, value \in CacheValues : Put(key, value)
    \/ Clear
    \/ ClearCache

SpecCache == InitCache /\ [][NextCache]_vars

\* One LRUCache, called by several threads
InitLock == InitCache

NextLock ==
    \E t \in Threads :
        \/ \E key \in Keys : CacheCall(t, "get", key, "None")
        \/ \E key \in Keys, value \in CacheValues :
              CacheCall(t, "put", key, value)
        \/ CacheCall(t, "clear", NoKey, "None")
        \/ GetTest(t)
        \/ CounterLoad(t)
        \/ CounterStore(t)
        \/ PutTest(t)
        \/ PutEvict(t)
        \/ PutInsert(t)
        \/ ClearEntries(t)
        \/ ClearHits(t)
        \/ ClearMisses(t)
        \/ Release(t)

SpecLock == InitLock /\ [][NextLock]_vars

\* One ExpressionCache, called by several threads; max_size leaves room for
\* every source, and clear is not called, so that no entry is ever removed
InitExprCache ==
    /\ InitCache
    /\ max_size = MaxCacheSize

NextExprCache ==
    \E t \in Threads :
        \/ \E expression \in ExprSources : GocGet(t, expression)
        \/ GocCompile(t)
        \/ GocPut(t)

SpecExprCache == InitExprCache /\ [][NextExprCache]_vars

\* Two FunctionRegistry objects, called by one thread
InitRegistry ==
    /\ InitCache
    /\ max_size = MaxCacheSize

NextRegistry ==
    \E r \in Registries :
        \/ \E name \in FunctionNames, func \in Callables,
                aliases \in SUBSET FunctionNames :
              Register(r, name, func, aliases)
        \/ \E name \in FunctionNames, func \in Callables :
              RegisterDefinition(r, name, func)
        \/ \E name \in FunctionNames : Unregister(r, name)
        \/ \E other \in Registries : Merge(r, other)

SpecRegistry == InitRegistry /\ [][NextRegistry]_vars

\* One ExpressionParser per set of known functions, called by one thread
InitAnalyze ==
    /\ InitCache
    /\ max_size = MaxCacheSize

NextAnalyze ==
    \E expression \in Sources, known \in KnownFunctions :
        ParserParse(expression, known)

SpecAnalyze == InitAnalyze /\ [][NextAnalyze]_vars

\* Several threads call the module-level functions of a fresh process
InitDefault ==
    /\ InitCache
    /\ max_size = MaxCacheSize

NextDefault ==
    \E t \in Threads :
        \/ \E by \in Conveniences : DefaultCall(t, by)
        \/ DefaultAcquire(t)
        \/ DefaultTest(t)
        \/ DefaultConstruct(t)
        \/ DefaultReturn(t)

SpecDefault == InitDefault /\ [][NextDefault]_vars

\* One LRUCache: one thread reads its stats while the others call get,
\* put and clear with one key
StatsKeys == {CHOOSE key \in Keys : TRUE}
StatsValues == {CHOOSE value \in CacheValues : TRUE}

InitStats == InitCache

NextStats ==
    \/ \E t \in Threads \ {Caller} :
          \/ \E key \in StatsKeys : CacheCall(t, "get", key, "None")
          \/ \E key \in StatsKeys, value \in StatsValues :
                CacheCall(t, "put", key, value)
          \/ CacheCall(t, "clear", NoKey, "None")
          \/ GetTest(t)
          \/ CounterLoad(t)
          \/ CounterStore(t)
          \/ PutTest(t)
          \/ PutEvict(t)
          \/ PutInsert(t)
          \/ ClearEntries(t)
          \/ ClearHits(t)
          \/ ClearMisses(t)
          \/ Release(t)
    \/ StatsLoadHits(Caller)
    \/ StatsTotal(Caller)
    \/ StatsSize(Caller)
    \/ StatsHits(Caller)
    \/ StatsMisses(Caller)
    \/ StatsRate(Caller)

SpecStats == InitStats /\ [][NextStats]_vars

(***************************************************************************)
(* Properties.                                                              *)
(***************************************************************************)
Finished(t, op) == pc[t] = "done" /\ last[t].op = op

SeqRange(seq) == {seq[i] : i \in 1..Len(seq)}

\* C1: with sandboxing enabled the safety check completes before the
\* interpretation starts: no node is evaluated while the check runs, the
\* interpreter is entered only from a completed check, and a check that
\* reports a violation ends the call with SecurityViolationError, no node
\* evaluated and no callable invoked.
C1_CheckBeforeInterpretation ==
    [][\A t \in Threads :
          /\ (enable_sandbox /\ call'[t].op = "evaluate"
                /\ pc[t] # "interp" /\ pc'[t] = "interp")
                => pc[t] = "checked"
          /\ (call'[t].op = "evaluate" /\ pc'[t] \in {"check", "visit", "checked"})
                => (last'[t].nodes = 0 /\ last'[t].calls = <<>>)
          /\ (pc[t] = "checked" /\ call[t].op = "evaluate"
                /\ lists[ret[t]] # <<>>)
                => /\ pc'[t] = "done"
                   /\ last'[t].exc = "SecurityViolationError"
                   /\ last'[t].nodes = 0
                   /\ last'[t].calls = <<>>
                   /\ last'[t].lookups = <<>>]_vars

C1_Witness ==
    /\ Finished(Caller, "evaluate")
    /\ last[Caller].src = "__import__('os').system('x')"
    /\ last[Caller].exc = "SecurityViolationError"
    /\ Len(last[Caller].checked) = 2

\* C2: with sandboxing enabled and calls made one at a time, an evaluate
\* that does not raise SecurityViolationError never looks up an attribute
\* whose name starts with "__", and never resolves a Name, a direct call
\* target or a method name that is in forbidden_names.
C2_NoForbiddenAccess ==
    \A t \in Threads :
        (Finished(t, "evaluate") /\ enable_sandbox
            /\ last[t].exc # "SecurityViolationError")
        => /\ \A a \in SeqRange(last[t].lookups) : ~StartsWithDunder(a)
           /\ \A n \in SeqRange(last[t].resolved) : n \notin forbidden_names
           /\ \A m \in SeqRange(last[t].methods) : m \notin forbidden_names

C2_Witness ==
    /\ Finished(Caller, "evaluate")
    /\ enable_sandbox
    /\ last[Caller].src = "x.upper()"
    /\ last[Caller].exc = ""
    /\ last[Caller].methods = <<"upper">>
    /\ last[Caller].resolved = <<"x">>

\* C3: when several threads call evaluate or validate on one engine, each
\* call's safety check returns exactly the violations of its own source: a
\* source with a violation is never interpreted, a safe source is never
\* rejected, and validate returns the violations of its own source.
C3_CheckIsPerCall ==
    \A t \in Threads :
        LET own == CheckAppends(call[t].src, strict_private_access)
        IN /\ (call[t].op = "evaluate" /\ pc[t] = "interp") => own = <<>>
           /\ (Finished(t, "evaluate")
                 /\ last[t].exc = "SecurityViolationError") => own # <<>>
           /\ (Finished(t, "validate") /\ last[t].exc = "")
                 => last[t].errors = own

\* C4: validate(expr) returns the empty list if and only if evaluate(expr,
\* context) raises neither ExpressionParseError nor SecurityViolationError,
\* with the sandbox enabled or disabled.
C4_ValidateIffEvaluateAccepts ==
    (Finished(Caller, "evaluate") /\ lastv.done
        /\ lastv.src = last[Caller].src /\ ~lastv.raised)
    => ((lastv.errors = <<>>)
        <=> last[Caller].exc \notin {"ExpressionParseError",
                                     "SecurityViolationError"})

\* C5: evaluate of a syntactically malformed expression fails with
\* ExpressionParseError, with the sandbox enabled or disabled.
C5_MalformedRaisesParseError ==
    (Finished(Caller, "evaluate")
        /\ ~Parse(last[Caller].src).ok
        /\ Parse(last[Caller].src).error = "SyntaxError")
    => last[Caller].exc = "ExpressionParseError"

\* C6: validate never raises and never executes anything: whatever the
\* outcome of parsing, it returns a list, evaluates no node and calls no
\* function.
C6_ValidateNeverRaises ==
    Finished(Caller, "validate")
    => /\ last[Caller].exc = ""
       /\ last[Caller].nodes = 0
       /\ last[Caller].calls = <<>>

\* C7: every comprehension that finishes normally, nested ones included,
\* leaves every name resolving as before it started; so a loop target does
\* not show after the comprehension in the same expression, and an engine
\* evaluate leaves the caller's context as it was for the next evaluate.
C7_ComprehensionScope ==
    \A t \in Threads :
        pc[t] = "done"
        => /\ last[t].scope_ok
           /\ last[t].op = "evaluate" => context[t] = last[t].ctx
           /\ (last[t].op = "evaluate" /\ last[t].exc = ""
                 /\ last[t].src = "([x for x in [1, 2, 3]], x)")
              => last[t].val =
                    TupleV(<<ListV(<<IntV(1), IntV(2), IntV(3)>>),
                             last[t].ctx["x"]>>)
           /\ (last[t].op = "evaluate" /\ last[t].exc = ""
                 /\ last[t].src = "x" /\ "x" \in DOMAIN last[t].ctx)
              => last[t].val = last[t].ctx["x"]

C7_Witness ==
    /\ Finished(Caller, "evaluate")
    /\ last[Caller].src = "[[y for y in x] for x in xs]"
    /\ last[Caller].exc = ""
    /\ last[Caller].val = ListV(<<ListV(<<IntV(1)>>),
                                  ListV(<<IntV(0), IntV(2)>>)>>)
    /\ last[Caller].ctx["x"] = StrV("outer")

\* C8: the mapping a caller passes to SafeEvaluator(names=...) or to
\* CompiledExpression.evaluate(context) holds the same bindings after the
\* evaluation as before, whether the evaluation succeeds or fails.
C8_CallerMappingUnchanged ==
    \A t \in Threads :
        (pc[t] = "done" /\ last[t].op \in {"safe_eval", "compiled"})
        => context[t] = last[t].ctx

\* C9: on an engine with caching enabled, an evaluate that gets as far as
\* compiling its source has gone through the expression cache: a miss or a
\* hit is recorded and the cache holds an entry.
C9_EvaluateUsesCache ==
    (Finished(Caller, "evaluate") /\ enable_cache
        /\ Parse(last[Caller].src).ok
        /\ last[Caller].exc # "SecurityViolationError")
    => /\ hits + misses > 0
       /\ cache # <<>>

\* C10: an LRUCache with max_size >= 1 never holds more than max_size
\* entries; a put of an absent key into a full cache removes exactly one
\* entry, the least recently used one; no other put or get removes an entry.
LeastRecentlyUsed(entries, order) ==
    order[CHOOSE i \in 1..Len(order) :
            /\ order[i] \in CacheKeys(entries)
            /\ \A j \in 1..(i - 1) : order[j] \notin CacheKeys(entries)]

C10_BoundedLRU ==
    [][LET removed == CacheKeys(cache) \ CacheKeys(cache')
           added == CacheKeys(cache') \ CacheKeys(cache)
       IN /\ Len(cache') <= max_size
          /\ Len(cache') = Cardinality(CacheKeys(cache'))
          /\ uses' # <<>> =>
                IF added # {} /\ Len(cache) >= max_size
                THEN removed = {LeastRecentlyUsed(cache, uses)}
                ELSE removed = {}]_vars

C10_Witness ==
    /\ Len(cache) = max_size
    /\ max_size = MaxCacheSize
    /\ Len(uses) > max_size
    /\ hits > 0

\* C13: between two clears the hit and miss counters never decrease: a get
\* adds one to hits and nothing to misses when the key is in the cache, one
\* to misses and nothing to hits when it is not, and a put changes neither.
C13_CountersMonotone ==
    [][/\ lastop'.name # "clear" => (hits' >= hits /\ misses' >= misses)
       /\ lastop'.name = "get" =>
             IF lastop'.key \in CacheKeys(cache)
             THEN hits' = hits + 1 /\ misses' = misses
             ELSE misses' = misses + 1 /\ hits' = hits
       /\ lastop'.name = "put" => (hits' = hits /\ misses' = misses)]_vars

C13_Witness ==
    /\ lastop = Called("get", MaxCacheSize, FALSE)
    /\ hits > 0
    /\ misses > 1
    /\ cache # <<>>

\* C14: clear() on the cache, and clear_cache() on an engine with a cache,
\* leaves no entry, hits = 0 and misses = 0 whatever the state before, and
\* leaves max_size as it was.
C14_ClearResetsAll ==
    [][lastop'.name = "clear" =>
          /\ Len(cache') = 0
          /\ hits' = 0
          /\ misses' = 0
          /\ max_size' = max_size]_vars

C14_Witness ==
    /\ lastop = Called("clear", NoKey, TRUE)
    /\ cache = <<>>
    /\ hits + misses = 0

\* the interpreter ran in the call of thread t that has just ended, with
\* the functions table FunctionsOf(t)
EvalRan(t) ==
    /\ pc[t] = "done"
    /\ \/ last[t].op = "safe_eval"
       \/ last[t].op = "compiled" /\ Parse(last[t].src).ok
       \/ /\ last[t].op = "evaluate"
          /\ enable_sandbox => /\ last[t].exc # "SecurityViolationError"
                                /\ Parse(last[t].src).ok

FunctionsOf(t) ==
    IF last[t].op = "compiled" THEN {} ELSE get_all_callables(custom)

Failed(t, cause, detail) ==
    /\ last[t].exc = "ExpressionEvalError"
    /\ last[t].cause = cause
    /\ last[t].detail = detail

Bound(t, name) == name \in DOMAIN last[t].ctx /\ name \notin FunctionsOf(t)

\* C18: and stops at the first falsy operand, or stops at the first truthy
\* one, the operands are evaluated left to right, and an operand after the
\* deciding one is never evaluated: no node of it is visited and no
\* function in it is called.
C18_ShortCircuit ==
    \A t \in Threads :
        EvalRan(t) =>
        /\ (last[t].src = "x or boom(x)" /\ Bound(t, "x")
              /\ Truthy(last[t].ctx["x"]))
           => /\ last[t].exc = "" /\ last[t].val = BoolV(TRUE)
              /\ last[t].nodes = 2 /\ last[t].calls = <<>>
        /\ (last[t].src = "xs and boom(x)" /\ Bound(t, "xs")
              /\ ~Truthy(last[t].ctx["xs"]))
           => /\ last[t].exc = "" /\ last[t].val = BoolV(FALSE)
              /\ last[t].nodes = 2 /\ last[t].calls = <<>>
        /\ (last[t].src = "x and boom(x)" /\ Bound(t, "x")
              /\ Truthy(last[t].ctx["x"]) /\ "boom" \in FunctionsOf(t))
           => /\ Failed(t, "ZeroDivisionError", "boom")
              /\ last[t].resolved = <<"x", "boom", "x">>
              /\ last[t].calls = <<"boom">>
        /\ (last[t].src = "None or len(xs)" /\ Bound(t, "xs")
              /\ "len" \in FunctionsOf(t))
           => /\ last[t].exc = "" /\ last[t].calls = <<"len">>
              /\ last[t].val = BoolV(last[t].ctx["xs"].xs # <<>>)

C18_Witness ==
    /\ EvalRan(Caller)
    /\ last[Caller].src = "x or boom(x)"
    /\ "boom" \in FunctionsOf(Caller)
    /\ last[Caller].val = BoolV(TRUE)
    /\ last[Caller].calls = <<>>

\* C19: an attribute access r.a that is not the target of a call gives,
\* for a dict r, the value under the key a, None when the key is absent,
\* and no error; for another r the member a is looked up on r and a missing
\* member fails the evaluation.
C19_AttributeAccess ==
    \A t \in Threads :
        EvalRan(t) =>
        /\ (last[t].src = "user.name" /\ Bound(t, "user")
              /\ last[t].ctx["user"]
                    = DictV(<<TupleV(<<StrV("name"), StrV("Alice")>>)>>))
           => /\ last[t].exc = "" /\ last[t].val = StrV("Alice")
              /\ last[t].lookups = <<>>
        /\ (last[t].src \in {"user._secret", "user.__priv"} /\ Bound(t, "user")
              /\ last[t].ctx["user"]
                    = DictV(<<TupleV(<<StrV("name"), StrV("Alice")>>)>>))
           => /\ last[t].exc = "" /\ last[t].val = NoneV
              /\ last[t].lookups = <<>>
        /\ (last[t].src = "x.missing" /\ Bound(t, "x")
              /\ last[t].ctx["x"].k = "str")
           => /\ Failed(t, "AttributeError", "missing")
              /\ last[t].lookups = <<"missing">>
        /\ (last[t].src = "x.__class__" /\ Bound(t, "x")
              /\ last[t].ctx["x"].k = "str")
           => /\ last[t].exc = "" /\ last[t].val.k = "type"
              /\ last[t].lookups = <<"__class__">>

C19_Witness ==
    /\ EvalRan(Caller)
    /\ last[Caller].src = "user._secret"
    /\ Bound(Caller, "user")
    /\ last[Caller].ctx["user"].k = "dict"
    /\ last[Caller].val = NoneV
    /\ last[Caller].exc = ""

\* C20: a comprehension with several generators yields in nested-loop
\* order: each item of a generator is bound to its target (a tuple target
\* item by item), its guards are checked, and only when all pass is the
\* next generator's iterable evaluated, with the bindings so far visible;
\* the element is evaluated once per innermost item that passed, and the
\* results are collected in that order.
XsNested == ListV(<<ListV(<<IntV(1)>>), ListV(<<IntV(0), IntV(2)>>)>>)

C20_NestedLoopOrder ==
    \A t \in Threads :
        EvalRan(t) =>
        /\ (last[t].src = "[y for x in xs for y in x if y]" /\ Bound(t, "xs")
              /\ last[t].ctx["xs"] = XsNested)
           => /\ last[t].exc = ""
              /\ last[t].val = ListV(<<IntV(1), IntV(2)>>)
              /\ last[t].nodes = 9
        /\ (last[t].src = "[z for x in xs for y in x if y for z in [len(x)]]"
              /\ Bound(t, "xs") /\ last[t].ctx["xs"] = XsNested
              /\ "len" \in FunctionsOf(t))
           => /\ last[t].exc = ""
              /\ last[t].val = ListV(<<IntV(1), IntV(2)>>)
              /\ last[t].calls = <<"len", "len">>
              /\ last[t].nodes = 15
        /\ (last[t].src = "[[y for y in x] for x in xs]" /\ Bound(t, "xs")
              /\ last[t].ctx["xs"] = XsNested)
           => last[t].exc = "" /\ last[t].val = XsNested
        /\ (last[t].src = "{k: v for k, v in pairs}" /\ Bound(t, "pairs")
              /\ last[t].ctx["pairs"].k = "list")
           => last[t].exc = "" /\ last[t].val = DictV(last[t].ctx["pairs"].xs)
        /\ (last[t].src = "[y for x in xs for y in x if y]" /\ Bound(t, "xs")
              /\ last[t].ctx["xs"] = ListV(<<>>))
           => last[t].exc = "" /\ last[t].val = ListV(<<>>) /\ last[t].nodes = 2

C20_Witness ==
    /\ EvalRan(Caller)
    /\ last[Caller].src = "[z for x in xs for y in x if y for z in [len(x)]]"
    /\ last[Caller].exc = ""
    /\ last[Caller].val = ListV(<<IntV(1), IntV(2)>>)
    /\ last[Caller].calls = <<"len", "len">>

\* C11: whatever the interleaving of get, put and clear calls of several
\* threads, each call takes effect atomically: the cache never holds more
\* than max_size entries, every get returns what it returns in the serial
\* order in which the calls took the lock, and with no call in progress
\* the contents, the recency order and the counters are those of that
\* serial order, hits + misses being the number of gets completed since
\* the last clear.
C11_CallsAreAtomic ==
    /\ Len(cache) <= max_size
    /\ \A t \in Threads : cop[t].at = "exit" => cop[t].ret = cop[t].want
    /\ (\A t \in Threads : cop[t].at = "out")
          => /\ cache = serial.cache
             /\ hits = serial.hits
             /\ misses = serial.misses
             /\ hits + misses = gets

C11_Witness ==
    /\ \E t \in Threads : At(t, "get", "hit_store")
    /\ Len(cache) = MaxCacheSize
    /\ hits > 0
    /\ misses > 0
    /\ gets = hits + misses

\* C12: over calls of get_or_compile for one source, also from several
\* threads, and with the entry never evicted or cleared, compile runs at
\* most once for the source and every caller gets the one cached object.
C12_CompiledOnce ==
    /\ \A src \in ExprSources :
          Cardinality({o \in made : o.expression = src}) <= 1
    /\ \A t \in Threads :
          goc[t].at = "done"
          => /\ MakeKey(goc[t].src) \in CacheKeys(cache)
             /\ goc[t].obj = Entry(cache, MakeKey(goc[t].src)).value

\* C29: put(k, v) for a key k the cache already holds keeps the value stored
\* for k, makes k the most recently used entry, and changes neither the
\* number of entries nor the counters; the get(k) that follows is a hit that
\* returns the stored value.
C29_PutKeepsValue ==
    [][/\ (lastop'.name = "put" /\ lastop'.key \in CacheKeys(cache)) =>
             /\ Entry(cache', lastop'.key) = Entry(cache, lastop'.key)
             /\ cache'[Len(cache')].key = lastop'.key
             /\ Len(cache') = Len(cache)
             /\ CacheKeys(cache') = CacheKeys(cache)
             /\ hits' = hits
             /\ misses' = misses
       /\ (lastop.name = "put" /\ lastop.found /\ lastop'.name = "get"
              /\ lastop'.key = lastop.key) =>
             /\ got'.hit
             /\ got'.value = Entry(cache, lastop.key).value]_vars

C29_Witness ==
    /\ lastop = Called("put", MaxCacheSize, TRUE)
    /\ Len(cache) = MaxCacheSize
    /\ MaxCacheSize \in CacheKeys(cache)
    /\ cache[Len(cache)].key = MaxCacheSize

\* C30: the result of an and/or expression is always the boolean True or
\* False, never the value of an operand: 0 or 5 gives True and 1 and 5
\* gives True, where Python's own operators give 5.
C30_BoolOpIsBoolean ==
    \A t \in Threads :
        (EvalRan(t) /\ last[t].exc = ""
           /\ Parse(last[t].src).body.kind = "BoolOp")
        => /\ last[t].val \in {BoolV(TRUE), BoolV(FALSE)}
           /\ last[t].src \in {"0 or 5", "1 and 5"}
                 => last[t].val = BoolV(TRUE)
           /\ (last[t].src = "x or boom(x)" /\ Bound(t, "x")
                 /\ Truthy(last[t].ctx["x"]))
              => last[t].val = BoolV(TRUE)

C30_Witness ==
    /\ EvalRan(Caller)
    /\ last[Caller].src = "0 or 5"
    /\ last[Caller].exc = ""
    /\ last[Caller].val = BoolV(TRUE)
    /\ last[Caller].nodes = 3

\* the nesting depth of an expression: the number of nodes on the longest
\* path from the root to a leaf
RECURSIVE Depth(_)
RECURSIVE MaxDepth(_)
MaxDepth(nodes) ==
    IF nodes = <<>> THEN 0
    ELSE LET d == Depth(Head(nodes))
             m == MaxDepth(Tail(nodes))
         IN IF d > m THEN d ELSE m
Depth(node) == 1 + MaxDepth(Children(node))

\* C21: with the sandbox enabled, the evaluation of an expression nested
\* deeper than max_recursion_depth ends with RecursionLimitError.
C21_DepthLimit ==
    \A t \in Threads :
        (Finished(t, "evaluate") /\ enable_sandbox /\ Parse(last[t].src).ok
           /\ Depth(Parse(last[t].src).body) > max_recursion_depth)
        => last[t].exc = "RecursionLimitError"

\* C25: evaluate resolves e, pi, inf and nan to the math constants when the
\* caller's context does not bind them and to the caller's binding when it
\* does, and the caller's context holds after the call exactly the
\* bindings it held before.
C25_AmbientConstants ==
    \A t \in Threads :
        Finished(t, "evaluate") =>
        /\ context[t] = last[t].ctx
        /\ (EvalRan(t) /\ last[t].src \in {"e", "pi", "inf", "nan"}
              /\ last[t].src \notin FunctionsOf(t))
           => /\ last[t].exc = ""
              /\ last[t].val =
                    IF last[t].src \in DOMAIN last[t].ctx
                    THEN last[t].ctx[last[t].src]
                    ELSE FloatV("math." \o last[t].src)

C25_Witness ==
    /\ Finished(Caller, "evaluate")
    /\ last[Caller].src = "e"
    /\ "e" \in DOMAIN last[Caller].ctx
    /\ last[Caller].val = IntV(1)
    /\ DOMAIN context[Caller] \cap {"pi", "inf", "nan"} = {}

\* C27: after any sequence of register, register_definition, unregister and
\* merge calls every alias of a registry maps to a name that is registered
\* as a function, and has(n) is true exactly when n is a key of
\* get_all_callables().
C27_NoDanglingAlias ==
    \A r \in Registries :
        /\ \A a \in DOMAIN reg[r].aliases :
              reg[r].aliases[a] \in DOMAIN reg[r].functions
        /\ \A n \in FunctionNames :
              has(reg[r], n) <=> n \in DOMAIN GetAllCallables(reg[r])

C27_Witness ==
    /\ regop = RegCalled("unregister", "registry", "f", "None", {}, TRUE)
    /\ DOMAIN reg["registry"].functions = {"g"}
    /\ DOMAIN reg["registry"].aliases = {"f"}
    /\ reg["other"].aliases # EmptyDict

\* C22: after register(name, f, aliases) on any registry state
\* get_callable(name) is f and the table expressions are evaluated with
\* maps name to f, whatever was resolvable under the name before, and
\* registering the same definition again leaves the registry as it is.
C22_RegisterOverwrites ==
    regop.op = "register" =>
        LET r == reg[regop.reg]
        IN /\ get_callable(r, regop.name) = regop.func
           /\ regop.name \in DOMAIN GetAllCallables(r)
           /\ GetAllCallables(r)[regop.name] = regop.func
           /\ register(r, regop.name, regop.func, regop.aliases) = r

\* C23: unregister(name) returns True exactly when name is registered as a
\* function; afterwards has(name) is False, no alias that pointed to name
\* resolves any more, and every other entry is unchanged; when it returns
\* False the registry is unchanged.
C23_UnregisterRemoves ==
    [][regop'.op = "unregister" =>
          LET r == reg[regop'.reg]
              after == reg'[regop'.reg]
              name == regop'.name
              pointed == {a \in DOMAIN r.aliases : r.aliases[a] = name}
          IN /\ regop'.result = (name \in DOMAIN r.functions)
             /\ \A q \in Registries \ {regop'.reg} : reg'[q] = reg[q]
             /\ IF regop'.result
                THEN /\ ~has(after, name)
                     /\ \A a \in pointed :
                           /\ ~has(after, a)
                           /\ get(after, a) = NoDefinition
                           /\ get_callable(after, a) = "None"
                           /\ a \notin DOMAIN GetAllCallables(after)
                     /\ \A n \in (DOMAIN r.functions) \ {name} :
                           /\ n \in DOMAIN after.functions
                           /\ after.functions[n] = r.functions[n]
                     /\ \A a \in (DOMAIN r.aliases) \ pointed :
                           /\ a \in DOMAIN after.aliases
                           /\ after.aliases[a] = r.aliases[a]
                ELSE after = r]_vars

\* the identifiers that occur as the direct target of a call in a tree
RECURSIVE CallTargets(_)
RECURSIVE CallTargetsAll(_)
CallTargets(node) ==
    (IF node.kind = "Call" /\ node.func.kind = "Name"
     THEN {node.func.id} ELSE {})
    \cup CallTargetsAll(Children(node))
CallTargetsAll(nodes) ==
    IF nodes = <<>> THEN {}
    ELSE CallTargets(Head(nodes)) \cup CallTargetsAll(Tail(nodes))

\* C24: for every expression and every set of known functions, an
\* identifier that is the direct target of a call is reported in functions
\* and not in variables, and the two lists never hold the same name.
C24_CallTargetIsFunction ==
    (analysis.expression # "" /\ analysis.is_valid) =>
        /\ \A id \in CallTargets(Parse(analysis.expression).body) :
              id \in analysis.functions /\ id \notin analysis.variables
        /\ analysis.variables \cap analysis.functions = {}

\* C26: get_default_engine returns the same engine to every caller,
\* callers whose first calls run at the same time included: at most one
\* engine is ever constructed for the global, no caller receives None,
\* and the global, once set, is never replaced.
C26_OneDefaultEngine ==
    [][/\ engines' <= 1
       /\ default_engine # NoEngine => default_engine' = default_engine
       /\ \A t \in Threads :
             de'[t].at = "done" =>
                /\ de'[t].engine # NoEngine
                /\ de'[t].engine = default_engine'
                /\ \A u \in Threads :
                      de'[u].at = "done" => de'[u].engine = de'[t].engine]_vars

C26_Witness ==
    /\ \A t \in Threads : de[t].at = "done" /\ de[t].engine = default_engine
    /\ \E t, u \in Threads : de[t].by # de[u].by
    /\ engines = 1

\* C28: the dict LRUCache.stats returns is a consistent snapshot, also
\* while other threads call get, put and clear: its hit_rate equals
\* hits / (hits + misses) of the hits and misses it returns (0 when both
\* are 0), lies within 0..1, and its size is at most max_size.
C28_StatsSnapshot ==
    \A t \in Threads :
        sop[t].at = "done" =>
            /\ sop[t].size <= sop[t].max_size
            /\ sop[t].num >= 0 /\ sop[t].num <= sop[t].den
            /\ IF sop[t].hits + sop[t].misses = 0 THEN sop[t].num = 0
               ELSE sop[t].num * (sop[t].hits + sop[t].misses)
                       = sop[t].hits * sop[t].den

====
